---- MODULE Spec2Model ----
(***************************************************************************)
(* A model of the two core subsystems of torch_npu:                        *)
(*   - the device memory caching allocator (NPUCachingAllocator.cpp), one  *)
(*     device, driven through the THNCachingAllocator entry points;        *)
(*   - the asynchronous task queue (NPUQueue.cpp): Repository with the     *)
(*     host thread as producer and one consumer thread.                    *)
(* Each subsystem has its own specification (Spec for the allocator,       *)
(* SpecQ for the queue); the variables of the other subsystem stay at      *)
(* their initial values.                                                   *)
(***************************************************************************)
EXTENDS Integers, Sequences, FiniteSets, TLC

VARIABLES
  \* ---- CachingAllocatorConfig
  m_max_split_size,             \* CachingAllocatorConfig::m_max_split_size
  m_garbage_collection_threshold, \* <<num, den>>, the double as a fraction
  \* ---- DeviceCachingAllocator (one device)
  blocks,                       \* heap of Block objects: id -> Block
  large_blocks,                 \* BlockPool large_blocks (set of Block*)
  small_blocks,                 \* BlockPool small_blocks
  active_blocks,                \* flat_hash_set<Block*> active_blocks
  npu_events,                   \* stream -> deque of (event, Block*)
  stats,                        \* DeviceStats
  total_allocated_memory,
  allowed_memory_maximum,
  set_fraction,
  shutdown_stats,
  assert_ok,                    \* FALSE once an AT_ASSERT of the allocator failed
  \* ---- THNCachingAllocator
  allocated_blocks,             \* flat_hash_map<void*, Block*>: set of <<ptr, id, n>>,
                                \* n the size the block was requested with
  \* ---- the driver (aclrtMallocAlign32 / aclrtFree)
  device_total,                 \* the bytes of device memory the driver manages
  hbm,                          \* device memory handed out: set of [ptr, size]
  \* ---- observation of the last allocator call and model bookkeeping
  last,                         \* what the last malloc / free / emptyCache call did
  ncalls,                       \* number of malloc calls made so far
  acc_base,                     \* every stat's current value at the last
                                \* resetAccumulatedStats (0 before the first)
  \* ---- the threads that call the allocator
  mutex,                        \* DeviceCachingAllocator::mutex: its owner, or NULL
  thread_pc                     \* thread -> "idle" or the public method it is in

VARIABLES
  \* ---- Repository (the task queue of one stream)
  initialized,
  repo_status,                  \* RepoStatus: "INIT", "RUN", "NEED_EXIT", "CAN_EXIT"
  read_idx,
  write_idx,
  datas,                        \* the ring: slot -> the record copied into it (0: none)
  read_working,
  write_working,
  need_empty,
  efd_read,                     \* eventfd counters; Closed once the descriptor is closed
  efd_write,
  efd_empty,
  \* ---- the threads
  host_pc,                      \* where the host thread stands
  consumer_pc,                  \* where the consumer thread (StartConsume) stands
  \* ---- observation
  ncopied,                      \* number of records WriteQueue has copied into the ring
  executed,                     \* the records execute was invoked on, in order
  released,                     \* the records release was invoked on, in order
  qlast                         \* the last call of the Repository that returned, and how

VARIABLES
  \* ---- ReleaseQueue (member releaseQueue of the Repository)
  rq_initialized,               \* ReleaseQueue::initialized
  rq_status,                    \* ReleaseQueue::repo_status
  rq_read_idx,
  rq_write_idx,
  rq_datas,                     \* the ring: slot -> the parameter block copied into it
  \* ---- the threads
  pusher_pc,                    \* the thread inside PushToReleaseQueue
  releaser_pc,                  \* where the releaser thread (StartRelease) stands
  \* ---- observation
  npushed,                      \* number of blocks WriteToReleaseQueue has copied
  params_released               \* the blocks ReleaseParam was invoked on, in order

rvars == <<rq_initialized, rq_status, rq_read_idx, rq_write_idx, rq_datas, pusher_pc,
           releaser_pc, npushed, params_released>>

qvars == <<initialized, repo_status, read_idx, write_idx, datas, read_working,
           write_working, need_empty, efd_read, efd_write, efd_empty, host_pc,
           consumer_pc, ncopied, executed, released, qlast>>

tvars == <<mutex, thread_pc>>

avars == <<m_max_split_size, m_garbage_collection_threshold, device_total, blocks, large_blocks,
           small_blocks, active_blocks, npu_events, stats, total_allocated_memory,
           allowed_memory_maximum, set_fraction, shutdown_stats, assert_ok,
           allocated_blocks, hbm, last, ncalls, acc_base, tvars>>

-----------------------------------------------------------------------------
(* Constants of NPUCachingAllocator.cpp                                    *)

NULL == 0
MiB == 1024 * 1024
kMinBlockSize == 512
kSmallSize == 1048576
kSmallBuffer == 2097152
kLargeBuffer == 20971520
kMinLargeAlloc == 10485760
kRoundLarge == 2097152
kHeader == 32
\* std::numeric_limits<size_t>::max(); every size of the model is far below it
SizeMax == 2147483647

(* Bounds of the model *)
\* number of malloc calls in a behaviour
MaxMalloc == 2

\* the stream handles (aclrtStream), ordered as BlockComparator orders them
Streams == {1, 2}
\* the device memory the driver manages, and the first address it hands out
DeviceTotal == 24 * MiB
DeviceBase == MiB
\* request sizes (bytes asked of raw_alloc) under the default configuration:
\* 512 KiB blocks of the small pool, 20.5 MiB blocks of the large pool
Sizes == {MiB \div 2 - kHeader, (41 * MiB) \div 2 - kHeader}
\* request sizes when max_split_size is configured: 20.5 MiB and 21 MiB
OversizeSizes == {(41 * MiB) \div 2 - kHeader, 21 * MiB - kHeader}
\* request sizes of two kinds in the small pool: 256 KiB and 512 KiB blocks
MixedSizes == {MiB \div 4 - kHeader, MiB \div 2 - kHeader}
\* devices with 8 MiB and with 24 MiB free, asked for 4 MiB and 6 MiB
RecoveryDevices == {8 * MiB, 24 * MiB}
RecoverySizes == {4 * MiB, 6 * MiB}
\* requests of 4 MiB and of an oversize block
ReleaseSizes == {4 * MiB, 22 * MiB - kHeader}
\* requests of 1 byte and of 1 MiB + 1 bytes
RoundingSizes == {1, MiB + 1}
\* the request sizes next to the places where the rounding, the pool or the
\* segment size changes
RoundingInputs ==
  (1 .. 3) \cup ((kMinBlockSize - 2 * kHeader) .. (kMinBlockSize + kHeader))
    \cup UNION { (c - 2 * kHeader) .. (c + kHeader) :
                 c \in {2 * kMinBlockSize, kSmallSize, kSmallSize + kMinBlockSize,
                        kSmallBuffer, kMinLargeAlloc - kMinBlockSize, kMinLargeAlloc,
                        kMinLargeAlloc + kRoundLarge, kLargeBuffer} }
\* one request size of the small pool
PointerSizes == {MiB \div 2 - kHeader}
\* the threads that call the allocator of one device
Threads == {1, 2}
\* garbage_collection_threshold:0.5 on a device of 100 MiB, the memory fraction
\* set to 0.5 or 0.25
GcThreshold == <<1, 2>>
GcDevice == 100 * MiB
Fractions == {<<1, 2>>, <<1, 4>>}
GcSizes == {4 * MiB, 21 * MiB}
\* PYTORCH_NPU_ALLOC_CONF max_split_size_mb:N (N > 20)
SplitConfigs == {21 * MiB, 22 * MiB}
\* a device with room for a 42 MiB segment beside a 22 MiB one, and request
\* sizes at or above max_split_size: 22 MiB, 40 MiB and 42 MiB
OversizeDevice == 66 * MiB
OversizeRequests == {22 * MiB - kHeader, 40 * MiB - kHeader, 42 * MiB - kHeader}

Max(x, y) == IF x >= y THEN x ELSE y

\* the element of a one-element set.  Only({ e : x \in {v} }) is e with x standing
\* for the value v; in a nest of such bindings the first binding made is the last
\* one written, so a nest reads from its last line upwards
Only(S) == CHOOSE x \in S : TRUE

-----------------------------------------------------------------------------
(* Statistics                                                              *)

StatTypeSet == {"AGGREGATE", "SMALL_POOL", "LARGE_POOL"}
StatNames == {"allocation", "segment", "active", "inactive_split",
              "allocated_bytes", "reserved_bytes", "active_bytes",
              "inactive_split_bytes"}

ZeroStat == [current |-> 0, peak |-> 0, allocated |-> 0, freed |-> 0]

InitStats ==
  [n \in StatNames |-> [t \in StatTypeSet |-> ZeroStat]] @@
  [num_alloc_retries |-> 0, num_ooms |-> 0,
   oversize_allocations |-> ZeroStat, oversize_segments |-> ZeroStat]

\* (update_stat_freed_lost: the freed total left alone)
update_stat_freed_lost(stat, amount) ==
  [current |-> stat.current + amount,
   peak |-> Max(stat.current + amount, stat.peak),
   allocated |-> IF amount > 0 THEN stat.allocated + amount ELSE stat.allocated,
   freed |-> stat.freed]

update_stat(stat, amount) ==
  LET c == stat.current + amount IN
  [current |-> c,
   peak |-> Max(c, stat.peak),
   allocated |-> IF amount > 0 THEN stat.allocated + amount ELSE stat.allocated,
   freed |-> IF amount < 0 THEN stat.freed + (-amount) ELSE stat.freed]

reset_accumulated_stat(stat) == [stat EXCEPT !.allocated = 0, !.freed = 0]

reset_peak_stat(stat) == [stat EXCEPT !.peak = stat.current]

update_stat_array(stat_array, amount, stat_types) ==
  [t \in StatTypeSet |->
     IF stat_types[t] THEN update_stat(stat_array[t], amount) ELSE stat_array[t]]

\* stats with `amount` applied to the entries stat_types of the array `name`
UpdStats(st, name, amount, stat_types) ==
  [st EXCEPT ![name] = update_stat_array(@, amount, stat_types)]

get_stat_type_for_pool(is_small) == IF is_small THEN "SMALL_POOL" ELSE "LARGE_POOL"

\* StatTypes stat_types = {false}; [AGGREGATE] = true; [pool's type] = true
StatTypesOf(is_small) ==
  [t \in StatTypeSet |-> t = "AGGREGATE" \/ t = get_stat_type_for_pool(is_small)]

\* release_block declares `StatTypes stat_types;` without initialiser: the entry
\* of the other pool is indeterminate, `u` is the value the build reads there
StatTypesUninit(is_small, u) ==
  [t \in StatTypeSet |->
     IF t = "AGGREGATE" \/ t = get_stat_type_for_pool(is_small) THEN TRUE ELSE u]

-----------------------------------------------------------------------------
(* Block and BlockPool                                                     *)

NewBlock(stream, size, is_small, ptr) ==
  [stream |-> stream, stream_uses |-> {}, size |-> size, is_small |-> is_small,
   ptr |-> ptr, allocated |-> FALSE, prev |-> NULL, next |-> NULL,
   event_count |-> 0, gc_count |-> 0]

is_split(b) == b.prev # NULL \/ b.next # NULL

\* the address `new Block` returns: the least id not in use
NewId(bs) == CHOOSE n \in 1 .. (Cardinality(DOMAIN bs) + 1) : n \notin DOMAIN bs

BlockComparator(x, y) ==
  IF x.stream # y.stream THEN x.stream < y.stream
  ELSE IF x.size # y.size THEN x.size < y.size
  ELSE x.ptr < y.ptr

Equivalent(x, y) == ~BlockComparator(x, y) /\ ~BlockComparator(y, x)

PoolOf(a, is_small) == IF is_small THEN a.small_blocks ELSE a.large_blocks

WithPool(a, is_small, s) ==
  IF is_small THEN [a EXCEPT !.small_blocks = s] ELSE [a EXCEPT !.large_blocks = s]

\* std::set::insert: refused when an equivalent element is present
\* (PoolInsertRefused: every insert refused)
PoolInsertRefused(a, id) == a

PoolInsert(a, id) ==
  LET b == a.blocks[id]
      s == PoolOf(a, b.is_small) IN
  IF \E c \in s : Equivalent(a.blocks[c], b) THEN a
  ELSE WithPool(a, b.is_small, s \cup {id})

\* std::set::erase(key): removes the element equivalent to the key
PoolErase(a, id) ==
  LET b == a.blocks[id]
      s == PoolOf(a, b.is_small) IN
  WithPool(a, b.is_small, {c \in s : ~Equivalent(a.blocks[c], b)})

\* std::set::lower_bound: first element not less than key, NULL for end()
lower_bound(a, s, key) ==
  LET cand == {c \in s : ~BlockComparator(a.blocks[c], key)} IN
  IF cand = {} THEN NULL
  ELSE CHOOSE c \in cand :
         \A d \in cand : d = c \/ BlockComparator(a.blocks[c], a.blocks[d])

\* the elements of the set in comparator order
RECURSIVE PoolSeq(_, _)
PoolSeq(a, s) ==
  IF s = {} THEN <<>>
  ELSE LET c == CHOOSE c \in s :
                  \A d \in s : d = c \/ BlockComparator(a.blocks[c], a.blocks[d])
       IN <<c>> \o PoolSeq(a, s \ {c})

-----------------------------------------------------------------------------
(* DeviceCachingAllocator: private methods.  `a` is the allocator object   *)
(* together with the driver's memory (a.hbm) and the observations of the   *)
(* running call (a.obs).                                                   *)

\* AT_ASSERT(cond): a failed assertion is remembered
Assert_(a, cond) == IF cond THEN a ELSE [a EXCEPT !.assert_ok = FALSE]

\* the guard of try_merge_blocks
\* (MergeableAlways: a sibling subsumed although allocated or awaiting events)
MergeableAlways(a, src) == src # NULL

Mergeable(a, src) ==
  ~(src = NULL \/ a.blocks[src].allocated \/ a.blocks[src].event_count > 0)

\* returns the allocator and the size of the subsumed block (0 on failure)
try_merge_blocks(a, dst, src) ==
  IF ~Mergeable(a, src) THEN [a |-> a, subsumed |-> 0]
  ELSE Only({ Only({
    [a |-> [PoolErase(a1, src) EXCEPT
              !.blocks = [i \in DOMAIN a1.blocks \ {src} |-> a1.blocks[i]]],
     subsumed |-> s.size]
    : a1 \in {[a0 EXCEPT !.blocks =
         [i \in DOMAIN a0.blocks |->
            IF i = dst
            THEN IF d.prev = src
                 THEN [d EXCEPT !.ptr = s.ptr, !.prev = s.prev, !.size = @ + s.size]
                 ELSE [d EXCEPT !.next = s.next, !.size = @ + s.size]
            ELSE IF d.prev = src /\ i = s.prev THEN [a0.blocks[i] EXCEPT !.next = dst]
            ELSE IF d.prev # src /\ i = s.next THEN [a0.blocks[i] EXCEPT !.prev = dst]
            ELSE a0.blocks[i]]]} })
    : a0 \in {Assert_(a, is_split(a.blocks[dst]) /\ is_split(a.blocks[src]))},
      d \in {a.blocks[dst]},
      s \in {a.blocks[src]} })

\* the merge candidates of free_block (MergePrevOnly: the next sibling forgotten)
MergePrevOnly(b) == <<b.prev, NULL>>

MergeCandidates(b) == <<b.prev, b.next>>

\* (NetChangeIgnoringNext: the block subsumed from block->next not counted)
NetChangeIgnoringNext(subsumed1, subsumed2, b) ==
  <<(IF subsumed1 > 0 THEN -1 ELSE 0) + (IF is_split(b) THEN 1 ELSE 0),
    (0 - subsumed1) + (IF is_split(b) THEN b.size ELSE 0)>>

\* the change of the inactive_split counters in free_block: <<blocks, bytes>>
NetChangeInactiveSplit(subsumed1, subsumed2, b) ==
  <<(IF subsumed1 > 0 THEN -1 ELSE 0) + (IF subsumed2 > 0 THEN -1 ELSE 0)
      + (IF is_split(b) THEN 1 ELSE 0),
    (0 - subsumed1) - subsumed2 + (IF is_split(b) THEN b.size ELSE 0)>>

\* moves a block into a pool of cached free blocks
free_block(a, block) ==
  Only({ Only({ Only({ Only({ Only({
    [a2 EXCEPT !.stats =
       UpdStats(UpdStats(UpdStats(UpdStats(@,
         "inactive_split", net[1], StatTypesOf(a2.blocks[block].is_small)),
         "inactive_split_bytes", net[2], StatTypesOf(a2.blocks[block].is_small)),
         "active", -1, StatTypesOf(a2.blocks[block].is_small)),
         "active_bytes", 0 - original_block_size, StatTypesOf(a2.blocks[block].is_small))]
    : net \in {NetChangeInactiveSplit(m1.subsumed, m2.subsumed, a2.blocks[block])} })
    : a2 \in {PoolInsert([m2.a EXCEPT !.active_blocks = @ \ {block}], block)} })
    : m2 \in {try_merge_blocks(m1.a, block, cands[2])} })
    : m1 \in {try_merge_blocks(a0, block, cands[1])} })
    : a0 \in {Assert_(a, ~a.blocks[block].allocated /\ a.blocks[block].event_count = 0)},
      cands \in {MergeCandidates(a.blocks[block])},
      original_block_size \in {a.blocks[block].size} })

\* (round_size_plain: the 32 bytes not added)
round_size_plain(size) ==
  IF size < kMinBlockSize THEN kMinBlockSize
  ELSE kMinBlockSize * ((size + kMinBlockSize - 1) \div kMinBlockSize)

round_size(size) ==
  LET s == size + kHeader IN
  IF s < kMinBlockSize THEN kMinBlockSize
  ELSE kMinBlockSize * ((s + kMinBlockSize - 1) \div kMinBlockSize)

\* get_pool: TRUE for small_blocks, FALSE for large_blocks
get_pool(size) == size <= kSmallSize

should_split(b, size) ==
  LET remaining == b.size - size IN
  IF b.is_small THEN remaining >= kMinBlockSize
  ELSE size < m_max_split_size /\ remaining > kSmallSize

\* (get_allocation_size_exact: no 20 MiB segment for the sizes below 10 MiB)
get_allocation_size_exact(size) ==
  IF size <= kSmallSize THEN kSmallBuffer
  ELSE kRoundLarge * ((size + kRoundLarge - 1) \div kRoundLarge)

get_allocation_size(size) ==
  IF size <= kSmallSize THEN kSmallBuffer
  ELSE IF size < kMinLargeAlloc THEN kLargeBuffer
  ELSE kRoundLarge * ((size + kRoundLarge - 1) \div kRoundLarge)

GcEnabled(a) == a.set_fraction /\ m_garbage_collection_threshold[1] > 0

\* the test of get_free_block on the candidate's stream
\* (StreamAcceptedAny: the test left out)
StreamAcceptedAny(cand_stream, stream) == TRUE

StreamAccepted(cand_stream, stream) == cand_stream = stream

\* "Do not return an oversized block for a large request"
\* (OversizeRejectedNever: the test left out)
OversizeRejectedNever(req_size, cand_size) == FALSE

OversizeRejected(req_size, cand_size) ==
  req_size < m_max_split_size /\ cand_size >= m_max_split_size

\* (TooLargeRejectedAbove: a candidate of exactly req_size + kLargeBuffer let through)
TooLargeRejectedAbove(req_size, cand_size) ==
  req_size >= m_max_split_size /\ cand_size > req_size + kLargeBuffer

\* "Allow oversized block size to be rounded up but within a limit"
TooLargeRejected(req_size, cand_size) ==
  req_size >= m_max_split_size /\ cand_size >= req_size + kLargeBuffer

\* the pool's blocks aged by one get_free_block call
AgePool(a, is_small) ==
  [a EXCEPT !.blocks =
     [i \in DOMAIN a.blocks |->
        IF i \in PoolOf(a, is_small)
        THEN [a.blocks[i] EXCEPT !.gc_count = @ + 1] ELSE a.blocks[i]]]

\* p: AllocParams.  Returns [a, p, ret]
get_free_block(a, p) ==
  Only({ Only({
    IF it = NULL
    THEN [a |-> a1, p |-> p, ret |-> FALSE]
    ELSE IF ~StreamAccepted(a1.blocks[it].stream, p.stream)
    THEN [a |-> [a1 EXCEPT !.obs.reject = "stream"], p |-> p, ret |-> FALSE]
    ELSE IF OversizeRejected(p.size, a1.blocks[it].size)
    THEN [a |-> [a1 EXCEPT !.obs.reject = "oversize"], p |-> p, ret |-> FALSE]
    ELSE IF TooLargeRejected(p.size, a1.blocks[it].size)
    THEN [a |-> [a1 EXCEPT !.obs.reject = "too_large"], p |-> p, ret |-> FALSE]
    ELSE [a |-> WithPool([a1 EXCEPT !.blocks[it].gc_count = 0], p.is_small,
                         PoolOf(a1, p.is_small) \ {it}),
          p |-> [p EXCEPT !.block = it],
          ret |-> TRUE]
    : it \in {lower_bound(a1, PoolOf(a1, p.is_small),
                          NewBlock(p.stream, p.size, p.is_small, NULL))} })
    : a1 \in {IF GcEnabled(a) THEN AgePool(a, p.is_small) ELSE a} })

\* FreeNPUMemoryCallbacksRegistry: no callback is registered in this repository
trigger_free_memory_callbacks(a, p) == FALSE

-----------------------------------------------------------------------------
(* The driver: aclrtMallocAlign32 / aclrtFree over a contiguous device      *)
(* memory of device_total bytes, first fit.                                 *)

Overlaps(p1, n1, p2, n2) == p1 < p2 + n2 /\ p2 < p1 + n1

DriverFits(mem, ptr, size) ==
  /\ ptr + size <= DeviceBase + device_total
  /\ \A r \in mem : ~Overlaps(ptr, size, r.ptr, r.size)

\* NULL when the device is out of memory (ACL_ERROR_RT_MEMORY_ALLOCATION)
AclrtMalloc(mem, size) ==
  LET cand == {q \in {DeviceBase} \cup {r.ptr + r.size : r \in mem} :
                 DriverFits(mem, q, size)} IN
  IF cand = {} THEN NULL ELSE CHOOSE q \in cand : \A q2 \in cand : q <= q2

AclrtFree(mem, ptr) == {r \in mem : r.ptr # ptr}

\* (npuSynchronizeDeviceSkipped: no synchronisation issued)
npuSynchronizeDeviceSkipped(a) == a

\* npuSynchronizeDevice: every event recorded so far has completed when it returns
npuSynchronizeDevice(a) ==
  [a EXCEPT !.npu_events =
              [s \in DOMAIN @ |-> [i \in 1 .. Len(@[s]) |-> [@[s][i] EXCEPT !.done = TRUE]]],
            !.obs.syncs = @ + 1]

-----------------------------------------------------------------------------

\* the updates of update_stat(stats.oversize_*, amount) guarded by the size test
UpdOversize(stat, size, amount) ==
  IF size >= m_max_split_size THEN update_stat(stat, amount) ELSE stat

\* returns [a, p, ret]
alloc_block(a, p, isRetry) ==
  Only({ Only({
    IF ptr = NULL
    THEN [a |-> a1, p |-> [p EXCEPT !.err = "ACL_ERROR_RT_MEMORY_ALLOCATION"],
          ret |-> FALSE]
    ELSE Only({
      [a |-> [a1 EXCEPT
                !.hbm = @ \cup {[ptr |-> ptr, size |-> p.alloc_size]},
                !.total_allocated_memory = @ + p.alloc_size,
                !.blocks = @ @@ (id :> NewBlock(p.stream, p.alloc_size, p.is_small, ptr)),
                !.stats = [UpdStats(UpdStats(@,
                             "segment", 1, StatTypesOf(p.is_small)),
                             "reserved_bytes", p.alloc_size, StatTypesOf(p.is_small))
                           EXCEPT !.oversize_segments = UpdOversize(@, p.alloc_size, 1)],
                !.obs.dev_allocs = @ + 1],
       p |-> [p EXCEPT !.block = id, !.err = "ACL_ERROR_NONE"],
       ret |-> TRUE]
      : id \in {NewId(a1.blocks)} })
    : ptr \in {IF a1.set_fraction
                  /\ a1.total_allocated_memory + p.alloc_size > a1.allowed_memory_maximum
               THEN NULL ELSE AclrtMalloc(a1.hbm, p.alloc_size)} })
    : a1 \in {IF isRetry THEN [a EXCEPT !.stats.num_alloc_retries = @ + 1] ELSE a} })

\* u: the value read from the uninitialised stat_types entry
release_block(a, block, u) ==
  Only({
    [PoolErase([a EXCEPT
         !.hbm = AclrtFree(@, b.ptr),
         !.total_allocated_memory = @ - b.size,
         !.stats = [UpdStats(UpdStats(@,
                      "segment", -1, StatTypesUninit(b.is_small, u)),
                      "reserved_bytes", 0 - b.size, StatTypesUninit(b.is_small, u))
                    EXCEPT !.oversize_segments = UpdOversize(@, b.size, -1)],
         !.obs.dev_frees = @ + 1,
         !.obs.freed_bytes = @ + b.size], block)
     EXCEPT !.blocks = [i \in DOMAIN a.blocks \ {block} |-> a.blocks[i]]]
    : b \in {a.blocks[block]} })

\* (ReleasableAny: the test left out)
ReleasableAny(b) == TRUE

\* the test of release_blocks: "Frees all non-split blocks"
Releasable(b) == b.prev = NULL /\ b.next = NULL

RECURSIVE ReleaseEach(_, _, _)
ReleaseEach(a, seq, u) ==
  IF seq = <<>> THEN a
  ELSE ReleaseEach(IF Releasable(a.blocks[Head(seq)])
                   THEN release_block(a, Head(seq), u) ELSE a,
                   Tail(seq), u)

release_blocks(a, is_small, u) == ReleaseEach(a, PoolSeq(a, PoolOf(a, is_small)), u)

\* the descending walk of release_available_cached_blocks from position i of seq
RECURSIVE ReleaseDescending(_, _, _, _, _, _, _)
ReleaseDescending(a, seq, i, totalReleased, key_size, stream, u) ==
  IF totalReleased < key_size
     /\ a.blocks[seq[i]].size >= m_max_split_size
     /\ a.blocks[seq[i]].stream = stream
  THEN IF i # 1
       THEN ReleaseDescending(release_block(a, seq[i], u), seq, i - 1,
                              totalReleased + a.blocks[seq[i]].size, key_size, stream, u)
       ELSE [a |-> release_block(a, seq[i], u),
             total |-> totalReleased + a.blocks[seq[i]].size]
  ELSE [a |-> a, total |-> totalReleased]

\* the position of `it` in the set, Len + 1 for end()
PosOf(seq, it) ==
  IF it = NULL THEN Len(seq) + 1 ELSE CHOOSE i \in 1 .. Len(seq) : seq[i] = it

\* (release_available_cached_blocks_any: true as soon as one block was released)
release_available_cached_blocks_any(a, p, u) ==
  IF m_max_split_size = SizeMax THEN [a |-> a, ret |-> FALSE]
  ELSE Only({ Only({
    IF it = NULL \/ a.blocks[it].stream # p.stream
    THEN IF PosOf(seq, it) = 1 THEN [a |-> a, ret |-> FALSE]
         ELSE Only({ [a |-> w.a, ret |-> w.total > 0]
                : w \in {ReleaseDescending(a, seq, PosOf(seq, it) - 1, 0, key_size,
                                           p.stream, u)} })
    ELSE [a |-> release_block(a, it, u), ret |-> TRUE]
    : it \in {lower_bound(a, PoolOf(a, p.is_small),
                          NewBlock(p.stream, key_size, p.is_small, NULL))},
      seq \in {PoolSeq(a, PoolOf(a, p.is_small))} })
    : key_size \in {IF p.size < m_max_split_size THEN m_max_split_size ELSE p.size} })

\* returns [a, ret]
release_available_cached_blocks(a, p, u) ==
  IF m_max_split_size = SizeMax THEN [a |-> a, ret |-> FALSE]
  ELSE Only({ Only({
    IF it = NULL \/ a.blocks[it].stream # p.stream
    THEN IF PosOf(seq, it) = 1 THEN [a |-> a, ret |-> FALSE]
         ELSE Only({ [a |-> w.a, ret |-> ~(w.total < key_size)]
                : w \in {ReleaseDescending(a, seq, PosOf(seq, it) - 1, 0, key_size,
                                           p.stream, u)} })
    ELSE [a |-> release_block(a, it, u), ret |-> TRUE]
    : it \in {lower_bound(a, PoolOf(a, p.is_small),
                          NewBlock(p.stream, key_size, p.is_small, NULL))},
      seq \in {PoolSeq(a, PoolOf(a, p.is_small))} })
    : key_size \in {IF p.size < m_max_split_size THEN m_max_split_size ELSE p.size} })

\* one deque of synchronize_and_free_events: every event is waited for
RECURSIVE SyncDeque(_, _)
SyncDeque(a, dq) ==
  IF dq = <<>> THEN a
  ELSE LET block == Head(dq).block
           a1 == [a EXCEPT !.blocks[block].event_count = @ - 1] IN
       SyncDeque(IF a1.blocks[block].event_count = 0 THEN free_block(a1, block) ELSE a1,
                 Tail(dq))

MinOf(S) == CHOOSE x \in S : \A y \in S : x <= y

RECURSIVE SyncStreams(_, _)
SyncStreams(a, S) ==
  IF S = {} THEN a
  ELSE SyncStreams(SyncDeque(a, a.npu_events[MinOf(S)]), S \ {MinOf(S)})

\* (synchronize_and_free_events_dropped: the deques cleared, the blocks not freed)
synchronize_and_free_events_dropped(a) ==
  [a EXCEPT !.npu_events = [s \in Streams |-> <<>>]]

synchronize_and_free_events(a) ==
  [SyncStreams(a, Streams) EXCEPT !.npu_events = [s \in Streams |-> <<>>]]

\* (release_cached_blocks_unsynced: the pools released before the pending
\* events are waited for)
release_cached_blocks_unsynced(a, u) ==
  synchronize_and_free_events(
    release_blocks(release_blocks(npuSynchronizeDevice(a), FALSE, u), TRUE, u))

release_cached_blocks(a, u) ==
  release_blocks(
    release_blocks(npuSynchronizeDevice(synchronize_and_free_events(a)), FALSE, u),
    TRUE, u)

\* one event per stream of stream_uses, recorded on that stream
RECURSIVE RecordEvents(_, _, _)
\* (RecordEventsOnce: an event recorded on one of the streams only)
RecordEventsOnce(a, block, streams) ==
  IF streams = {} THEN a
  ELSE [a EXCEPT !.blocks[block].event_count = @ + 1,
                 !.npu_events[MinOf(streams)] = Append(@, [block |-> block, done |-> FALSE])]

RecordEvents(a, block, streams) ==
  IF streams = {} THEN a
  ELSE LET s == MinOf(streams) IN
       RecordEvents([a EXCEPT !.blocks[block].event_count = @ + 1,
                              !.npu_events[s] = Append(@, [block |-> block, done |-> FALSE])],
                    block, streams \ {s})

\* (DeferredAlways: the test of stream_uses left out)
DeferredAlways(a, block) == ~a.shutdown_stats

\* the test of free on the recorded streams
Deferred(a, block) == a.blocks[block].stream_uses # {} /\ ~a.shutdown_stats

insert_events(a, block) ==
  LET streams == a.blocks[block].stream_uses
      a1 == [a EXCEPT !.blocks[block].stream_uses = {}]
  IN RecordEvents(Assert_(a1, a1.blocks[block].stream_uses = {}), block, streams)

\* event->query() (QueryAlwaysTrue: the result of the query ignored)
QueryAlwaysTrue(e) == TRUE

EventQuery(e) == e.done

\* one deque of process_events: stops at the first event that has not completed
RECURSIVE ProcessDeque(_, _)
\* (ProcessDequeOne: at most one event taken from the deque)
ProcessDequeOne(a, s) ==
  IF a.npu_events[s] = <<>> THEN a
  ELSE IF ~EventQuery(Head(a.npu_events[s])) THEN a
  ELSE Only({ Only({
    [(IF a1.blocks[block].event_count = 0 THEN free_block(a1, block) ELSE a1)
     EXCEPT !.npu_events[s] = Tail(@)]
    : a1 \in {[a EXCEPT !.blocks[block].event_count = @ - 1]} })
    : block \in {Head(a.npu_events[s]).block} })

ProcessDeque(a, s) ==
  IF a.npu_events[s] = <<>> THEN a
  ELSE IF ~EventQuery(Head(a.npu_events[s])) THEN a
  ELSE Only({ Only({
    ProcessDeque([(IF a1.blocks[block].event_count = 0
                   THEN free_block(a1, block) ELSE a1)
                  EXCEPT !.npu_events[s] = Tail(@)], s)
    : a1 \in {[a EXCEPT !.blocks[block].event_count = @ - 1]} })
    : block \in {Head(a.npu_events[s]).block} })

RECURSIVE ProcessStreams(_, _)
ProcessStreams(a, S) ==
  IF S = {} THEN a ELSE ProcessStreams(ProcessDeque(a, MinOf(S)), S \ {MinOf(S)})

\* (process_events_skipped: the deques not looked at)
process_events_skipped(a) == a

process_events(a) == ProcessStreams(a, Streams)

\* one pass of the garbage collector over large_blocks with a fixed age threshold
\* (total_age0 / count0); g = [a, reclaimed, total_age, count, freed]
RECURSIVE GcPass(_, _, _, _, _)
GcPass(g, seq, total_age0, count0, u) ==
  IF seq = <<>> THEN g
  ELSE LET b == g.a.blocks[Head(seq)] IN
       IF ~is_split(b) /\ b.gc_count * count0 >= total_age0
       THEN GcPass([a |-> release_block(g.a, Head(seq), u),
                    reclaimed |-> g.reclaimed + b.size,
                    total_age |-> g.total_age - b.gc_count,
                    count |-> g.count - 1,
                    freed |-> TRUE],
                   Tail(seq), total_age0, count0, u)
       ELSE GcPass(g, Tail(seq), total_age0, count0, u)

\* (GcLoopOnce: one pass, not repeated)
GcLoopOnce(g, target_size, u) ==
  IF g.reclaimed < target_size /\ g.freed /\ g.count > 0
  THEN GcPass([g EXCEPT !.freed = FALSE], PoolSeq(g.a, g.a.large_blocks),
              g.total_age, g.count, u)
  ELSE g

RECURSIVE GcLoop(_, _, _)
GcLoop(g, target_size, u) ==
  IF g.reclaimed < target_size /\ g.freed /\ g.count > 0
  THEN GcLoop(GcPass([g EXCEPT !.freed = FALSE], PoolSeq(g.a, g.a.large_blocks),
                     g.total_age, g.count, u),
              target_size, u)
  ELSE g

RECURSIVE SumSeq(_, _)
SumSeq(f, seq) == IF seq = <<>> THEN 0 ELSE f[Head(seq)] + SumSeq(f, Tail(seq))

garbage_collect_cached_blocks(a, u) ==
  LET gc_threshold == (m_garbage_collection_threshold[1] * a.allowed_memory_maximum)
                        \div m_garbage_collection_threshold[2]
      freeable == {b \in a.large_blocks : ~is_split(a.blocks[b])}
      total_age == SumSeq([b \in freeable |-> a.blocks[b].gc_count], PoolSeq(a, freeable))
  IN
  IF a.total_allocated_memory <= gc_threshold THEN a
  ELSE IF freeable = {} THEN a
  ELSE GcLoop([a |-> npuSynchronizeDevice(a), reclaimed |-> 0, total_age |-> total_age,
               count |-> Cardinality(freeable), freed |-> TRUE],
              a.total_allocated_memory - gc_threshold, u).a

-----------------------------------------------------------------------------
(* DeviceCachingAllocator: public methods                                  *)

\* what a call did besides changing the allocator: device synchronisations, driver
\* allocations and frees, and why get_free_block refused its candidate
NoObs == [syncs |-> 0, dev_allocs |-> 0, dev_frees |-> 0, freed_bytes |-> 0,
          reject |-> "none"]

\* the acquisition chain of malloc; returns [a, p, ret, cached]
\* (AcquireBlockDriverFirst: the driver asked before the pool is searched)
AcquireBlockDriverFirst(a, p, u) ==
  Only({
    IF r1.ret THEN [a |-> r1.a, p |-> r1.p, ret |-> TRUE, cached |-> FALSE]
    ELSE Only({ [a |-> g1.a, p |-> g1.p, ret |-> g1.ret, cached |-> g1.ret]
           : g1 \in {get_free_block(a, p)} })
    : r1 \in {alloc_block(a, p, FALSE)} })

AcquireBlock(a, p, u) ==
  Only({
    IF g1.ret THEN [a |-> g1.a, p |-> g1.p, ret |-> TRUE, cached |-> TRUE]
    ELSE Only({
      IF g2.ret THEN [a |-> g2.a, p |-> g2.p, ret |-> TRUE, cached |-> TRUE]
      ELSE Only({
        IF r1.ret THEN [a |-> r1.a, p |-> r1.p, ret |-> TRUE, cached |-> FALSE]
        ELSE Only({ Only({
          IF r3.ret THEN [a |-> r3.a, p |-> r3.p, ret |-> TRUE, cached |-> FALSE]
          ELSE Only({ [a |-> r4.a, p |-> r4.p, ret |-> r4.ret, cached |-> FALSE]
                 : r4 \in {alloc_block(release_cached_blocks(r3.a, u), r3.p, TRUE)} })
          : r3 \in {IF r2.ret THEN alloc_block(r2.a, r1.p, FALSE)
                    ELSE [a |-> r2.a, p |-> r1.p, ret |-> FALSE]} })
          : r2 \in {release_available_cached_blocks(r1.a, r1.p, u)} })
        : r1 \in {alloc_block(IF GcEnabled(g2.a)
                              THEN garbage_collect_cached_blocks(g2.a, u) ELSE g2.a,
                              g2.p, FALSE)} })
      : g2 \in {IF trigger_free_memory_callbacks(g1.a, g1.p)
                THEN get_free_block(g1.a, g1.p) ELSE g1} })
    : g1 \in {get_free_block(a, p)} })

\* remaining->prev = block; remaining->ptr += size; remaining->size -= size
\* (ShrinkRemainingInPlace: the address of the remainder not advanced)
ShrinkRemainingInPlace(r, block, size) == [r EXCEPT !.prev = block, !.size = @ - size]

ShrinkRemaining(r, block, size) ==
  [r EXCEPT !.prev = block, !.ptr = @ + size, !.size = @ - size]

\* the split of malloc: a new block of `size` bytes in front of `remaining`
SplitBlock(a, remaining, p) ==
  Only({
    [a |-> PoolInsert(
             [a EXCEPT !.blocks =
                [i \in DOMAIN a.blocks \cup {block} |->
                   IF i = block
                   THEN [NewBlock(p.stream, p.size, p.is_small, r.ptr) EXCEPT
                           !.prev = r.prev, !.next = remaining]
                   ELSE IF i = remaining
                   THEN ShrinkRemaining(r, block, p.size)
                   ELSE IF i = r.prev THEN [a.blocks[i] EXCEPT !.next = block]
                   ELSE a.blocks[i]]],
             remaining),
     block |-> block]
    : block \in {NewId(a.blocks)}, r \in {a.blocks[remaining]} })

\* the stat updates of malloc for the returned block of bsize bytes; rsize is the
\* size of the remainder when the block was split off
MallocStats(st, do_split, already_split, bsize, rsize, types) ==
  [UpdStats(UpdStats(UpdStats(UpdStats(
     (IF do_split
      THEN IF already_split
           THEN UpdStats(st, "inactive_split_bytes", 0 - bsize, types)
           ELSE UpdStats(UpdStats(st, "inactive_split_bytes", rsize, types),
                         "inactive_split", 1, types)
      ELSE IF already_split
           THEN UpdStats(UpdStats(st, "inactive_split_bytes", 0 - bsize, types),
                         "inactive_split", -1, types)
           ELSE st),
     "allocation", 1, types), "allocated_bytes", bsize, types),
     "active", 1, types), "active_bytes", bsize, types)
   EXCEPT !.oversize_allocations = UpdOversize(@, bsize, 1)]

\* AllocParams params(device, size, stream, &pool, alloc_size, stats)
AllocParams(size, stream) ==
  [size |-> size, stream |-> stream, is_small |-> get_pool(size),
   alloc_size |-> get_allocation_size(size), block |-> NULL, err |-> "ACL_ERROR_NONE"]

\* returns [a, block, info]; block = NULL when malloc throws
malloc(a, size_arg, stream, u) ==
  Only({ Only({
    IF ~q.ret
    THEN [a |-> [q.a EXCEPT !.stats.num_ooms = @ + 1], block |-> NULL,
          info |-> [size |-> size, stream |-> stream, cached |-> FALSE, found_size |-> 0,
                    found_stream |-> NULL, split |-> FALSE]]
    ELSE Only({ Only({
      [a |-> [sp.a EXCEPT
                !.blocks[sp.block].allocated = TRUE,
                !.active_blocks = @ \cup {sp.block},
                !.stats = MallocStats(@, should_split(found, size), is_split(found),
                                      sp.a.blocks[sp.block].size,
                                      sp.a.blocks[q.p.block].size,
                                      StatTypesOf(get_pool(size)))],
       block |-> sp.block,
       info |-> [size |-> size, stream |-> stream, cached |-> q.cached,
                 found_size |-> found.size, found_stream |-> found.stream,
                 split |-> should_split(found, size)]]
      : sp \in {IF should_split(found, size) THEN SplitBlock(q.a, q.p.block, q.p)
                ELSE [a |-> q.a, block |-> q.p.block]} })
      : found \in {q.a.blocks[q.p.block]} })
    : q \in {AcquireBlock(process_events(a), AllocParams(size, stream), u)} })
    : size \in {round_size(size_arg)} })

free(a, block) ==
  Only({ Only({
    IF Deferred(a1, block) THEN insert_events(a1, block) ELSE free_block(a1, block)
    : a1 \in {[a EXCEPT
                 !.blocks[block].allocated = FALSE,
                 !.stats = [UpdStats(UpdStats(@,
                              "allocation", -1, StatTypesOf(b.is_small)),
                              "allocated_bytes", 0 - b.size, StatTypesOf(b.is_small))
                            EXCEPT !.oversize_allocations = UpdOversize(@, b.size, -1)]]} })
    : b \in {a.blocks[block]} })

\* returns <<basePtr, size>>
RECURSIVE ChainHead(_, _)
ChainHead(bs, block) == IF bs[block].prev # NULL THEN ChainHead(bs, bs[block].prev) ELSE block

RECURSIVE ChainSize(_, _)
ChainSize(bs, block) ==
  IF block = NULL THEN 0 ELSE bs[block].size + ChainSize(bs, bs[block].next)

getBaseAllocation(bs, block) ==
  LET head == ChainHead(bs, block) IN <<bs[head].ptr, ChainSize(bs, head)>>

recordStream(a, block, stream) == [a EXCEPT !.blocks[block].stream_uses = @ \cup {stream}]

\* the loop of eraseStream over npu_events[stream], from position i
RECURSIVE EraseEvents(_, _, _, _)
EraseEvents(a, block, stream, i) ==
  IF i > Len(a.npu_events[stream]) THEN a
  ELSE IF a.npu_events[stream][i].block # block THEN EraseEvents(a, block, stream, i + 1)
  ELSE LET dq == a.npu_events[stream]
           a1 == [a EXCEPT !.npu_events[stream] =
                             SubSeq(dq, 1, i - 1) \o SubSeq(dq, i + 1, Len(dq)),
                           !.blocks[block].event_count = @ - 1]
       IN IF a1.blocks[block].event_count = 0 THEN free_block(a1, block)
          ELSE EraseEvents(a1, block, stream, i)

\* (eraseStreamUsesOnly: the pending events left alone)
eraseStreamUsesOnly(a, block, stream) ==
  [a EXCEPT !.blocks[block].stream_uses = @ \ {stream}]

eraseStream(a, block, stream) ==
  EraseEvents([a EXCEPT !.blocks[block].stream_uses = @ \ {stream}], block, stream, 1)

\* fraction = frac[1] / frac[2]
setMemoryFraction(a, frac) ==
  [a EXCEPT !.allowed_memory_maximum = (frac[1] * device_total) \div frac[2],
            !.set_fraction = TRUE]

emptyCache(a, u) == release_cached_blocks(a, u)

resetAccumulatedStats(st) ==
  [n \in StatNames |-> [t \in StatTypeSet |-> reset_accumulated_stat(st[n][t])]] @@
  [num_alloc_retries |-> 0, num_ooms |-> 0,
   oversize_allocations |-> reset_accumulated_stat(st.oversize_allocations),
   oversize_segments |-> reset_accumulated_stat(st.oversize_segments)]

resetPeakStats(st) ==
  [n \in StatNames |-> [t \in StatTypeSet |-> reset_peak_stat(st[n][t])]] @@
  [num_alloc_retries |-> st.num_alloc_retries, num_ooms |-> st.num_ooms,
   oversize_allocations |-> reset_peak_stat(st.oversize_allocations),
   oversize_segments |-> reset_peak_stat(st.oversize_segments)]

\* the current value of every stat
CurrentOf(st) ==
  [n \in StatNames |-> [t \in StatTypeSet |-> st[n][t].current]] @@
  [oversize_allocations |-> st.oversize_allocations.current,
   oversize_segments |-> st.oversize_segments.current]

-----------------------------------------------------------------------------
(* Repository: the ring of task records between the host thread (producer) *)
(* and the consumer thread of NPUQueue.cpp.  The host thread calls         *)
(* InitRepo, Enqueue, MakeSureQueueEmpty and the destructor one after the  *)
(* other; the consumer thread runs StartConsume.  A step of a thread is    *)
(* one access to the shared state (an index, a flag, an eventfd) together  *)
(* with the thread-local work around it.                                   *)

\* log2 of the ring capacity of the model (4096 = 2^12 in the source)
QueueBits == 2
\* number of records the host thread enqueues in a behaviour
MaxRecords == 5

kQueueCapacity == 2 ^ QueueBits

\* a closed descriptor (efd_* = -1 after ReleaseResource)
Closed == -1

\* x & y on non-negative integers
RECURSIVE BitAnd(_, _)
BitAnd(x, y) ==
  IF x = 0 \/ y = 0 THEN 0
  ELSE (x % 2) * (y % 2) + 2 * BitAnd(x \div 2, y \div 2)

\* (idx + 1) & (kQueueCapacity - 1)
NextIdx(idx) == BitAnd(idx + 1, kQueueCapacity - 1)

\* read_idx.idx = (read_idx.idx + 1) & (kQueueCapacity - 1) in ReadQueue
\* (AdvanceReadTwice: the index moved by two slots)
AdvanceReadTwice(idx) == NextIdx(NextIdx(idx))

AdvanceRead(idx) == NextIdx(idx)

\* (IsFullQueueNever: the ring never reported full)
IsFullQueueNever == FALSE

\* (IsFullQueueEarly: full while two slots are still free)
IsFullQueueEarly == NextIdx(NextIdx(write_idx)) = read_idx

IsFullQueue == NextIdx(write_idx) = read_idx

IsEmptyQueue == read_idx = write_idx

\* eventfd_write(fd, 1) on an open descriptor
EventfdWrite(counter) == counter + 1

\* (TerminatedNever: the host threads run on after the uncaught exception)
TerminatedNever == FALSE

\* uncaught std::runtime_error in the consumer thread: std::terminate
Terminated == consumer_pc = "terminate"

\* a call of the Repository has returned: NPUStatus for MakeSureQueueEmpty; for
\* the void functions "done", or "logged" for a return after ASCEND_LOGE
Returned(op, ret) == [op |-> op, ret |-> ret]

\* log2 of the capacity of the release ring of the model (8192 = 2^13 in the
\* source)
ReleaseQueueBits == 2
\* number of parameter blocks pushed in a behaviour
MaxParams == 5

kReleaseQueueCapacity == 2 ^ ReleaseQueueBits

\* (idx + 1) & (kReleaseQueueCapacity - 1)
NextReleaseIdx(idx) == BitAnd(idx + 1, kReleaseQueueCapacity - 1)

\* (ReleaseIsFullQueueNever: the release ring never reported full)
ReleaseIsFullQueueNever == FALSE

\* ReleaseQueue::IsFullQueue
ReleaseIsFullQueue == (rq_write_idx + 1) % kReleaseQueueCapacity = rq_read_idx

\* ReleaseQueue::IsEmptyQueue
ReleaseIsEmptyQueue == rq_read_idx = rq_write_idx

\* the ReleaseQueue after construction, before InitReleaseQueue
ReleaseQueueInit ==
  /\ rq_initialized = FALSE
  /\ rq_status = "INIT"
  /\ rq_read_idx = 0
  /\ rq_write_idx = 0
  /\ rq_datas = [i \in 0 .. kReleaseQueueCapacity - 1 |-> 0]
  /\ pusher_pc = "idle"
  /\ releaser_pc = "none"
  /\ npushed = 0
  /\ params_released = <<>>

\* releaseQueue.InitReleaseQueue(), the last call of InitRepo
InitReleaseQueue ==
  /\ rq_initialized' = TRUE
  /\ rq_status' = "INIT"
  /\ releaser_pc' = "StartRelease"
  /\ UNCHANGED <<rq_read_idx, rq_write_idx, rq_datas, pusher_pc, npushed, params_released>>

\* PushToReleaseQueue up to the first WriteToReleaseQueue; on a queue that is
\* not initialised the call logs an error and returns
PushToReleaseQueue ==
  /\ pusher_pc = "idle"
  /\ host_pc = "idle"
  /\ rq_initialized
  /\ npushed < MaxParams
  /\ pusher_pc' = "WriteToReleaseQueue"
  /\ UNCHANGED <<avars, qvars, rq_initialized, rq_status, rq_read_idx, rq_write_idx,
                 rq_datas, releaser_pc, npushed, params_released>>

\* one pass of while (ret == false) ret = WriteToReleaseQueue(cur_paras): the
\* block copied is the (npushed + 1)-th; on a full ring the loop goes round
WriteToReleaseQueue ==
  /\ pusher_pc = "WriteToReleaseQueue"
  /\ IF ReleaseIsFullQueue
     THEN UNCHANGED <<rq_datas, rq_write_idx, npushed, pusher_pc>>
     ELSE /\ rq_datas' = [rq_datas EXCEPT ![rq_write_idx] = npushed + 1]
          /\ rq_write_idx' = NextReleaseIdx(rq_write_idx)
          /\ npushed' = npushed + 1
          /\ pusher_pc' = "idle"
  /\ UNCHANGED <<avars, qvars, rq_initialized, rq_status, rq_read_idx, releaser_pc,
                 params_released>>

\* while (releaseQue->GetStatus() != CAN_EXIT) releaseQue->PopFromReleaseQueue()
StartRelease ==
  /\ releaser_pc = "StartRelease"
  /\ releaser_pc' = IF rq_status = "CAN_EXIT" THEN "exited" ELSE "PopLoop"
  /\ UNCHANGED <<avars, qvars, rq_initialized, rq_status, rq_read_idx, rq_write_idx,
                 rq_datas, pusher_pc, npushed, params_released>>

\* the head of the loop of PopFromReleaseQueue and ReadFromReleaseQueue up to
\* ReleaseParam, which is invoked on the block of slot read_idx
ReadFromReleaseQueue ==
  /\ releaser_pc = "PopLoop"
  /\ IF rq_status = "CAN_EXIT"
     THEN releaser_pc' = "StartRelease" /\ UNCHANGED params_released
     ELSE IF ReleaseIsEmptyQueue
     THEN releaser_pc' = "PopEmpty" /\ UNCHANGED params_released
     ELSE /\ releaser_pc' = "ReleaseParam"
          /\ params_released' = Append(params_released, rq_datas[rq_read_idx])
  /\ UNCHANGED <<avars, qvars, rq_initialized, rq_status, rq_read_idx, rq_write_idx,
                 rq_datas, pusher_pc, npushed>>

\* ReleaseParam returns: read_idx advances and PopFromReleaseQueue returns
ReleaseParamReturn ==
  /\ releaser_pc = "ReleaseParam"
  /\ rq_read_idx' = NextReleaseIdx(rq_read_idx)
  /\ releaser_pc' = "StartRelease"
  /\ UNCHANGED <<avars, qvars, rq_initialized, rq_status, rq_write_idx, rq_datas,
                 pusher_pc, npushed, params_released>>

\* if (GetStatus() == RepoStatus::NEED_EXIT) in PopFromReleaseQueue
ReleaserExitRequested == rq_status = "NEED_EXIT"

\* ret == false: NEED_EXIT becomes CAN_EXIT and the call returns, else the
\* releaser sleeps for 1 us (select) and tries again
PopEmpty ==
  /\ releaser_pc = "PopEmpty"
  /\ IF ReleaserExitRequested
     THEN rq_status' = "CAN_EXIT" /\ releaser_pc' = "StartRelease"
     ELSE releaser_pc' = "PopLoop" /\ UNCHANGED rq_status
  /\ UNCHANGED <<avars, qvars, rq_initialized, rq_read_idx, rq_write_idx, rq_datas,
                 pusher_pc, npushed, params_released>>

\* ~ReleaseQueue, run by the host thread once no thread is inside
\* PushToReleaseQueue: SetStatus(NEED_EXIT)
ReleaseQueueDestructor ==
  /\ host_pc = "idle"
  /\ pusher_pc = "idle"
  /\ rq_initialized
  /\ releaser_pc # "none"
  /\ rq_status' = "NEED_EXIT"
  /\ host_pc' = "ReleaserJoin"
  /\ UNCHANGED <<avars, qlast, initialized, repo_status, read_idx, write_idx, datas,
                 read_working, write_working, need_empty, efd_read, efd_write,
                 efd_empty, consumer_pc, ncopied, executed, released,
                 rq_initialized, rq_read_idx, rq_write_idx, rq_datas, pusher_pc,
                 releaser_pc, npushed, params_released>>

\* releaser.join(); releaseManager().DeInit(datas)
ReleaserJoin ==
  /\ host_pc = "ReleaserJoin"
  /\ releaser_pc = "exited"
  /\ host_pc' = "destroyed"
  /\ UNCHANGED <<avars, rvars, qlast, initialized, repo_status, read_idx, write_idx, datas,
                 read_working, write_working, need_empty, efd_read, efd_write,
                 efd_empty, consumer_pc, ncopied, executed, released>>

\* the Repository after construction, before InitRepo
RepositoryInit ==
  /\ initialized = FALSE
  /\ repo_status = "INIT"
  /\ read_idx = 0
  /\ write_idx = 0
  /\ datas = [i \in 0 .. kQueueCapacity - 1 |-> 0]
  /\ read_working = FALSE
  /\ write_working = FALSE
  /\ need_empty = FALSE
  /\ efd_read = Closed
  /\ efd_write = Closed
  /\ efd_empty = Closed
  /\ host_pc = "idle"
  /\ consumer_pc = "none"
  /\ ncopied = 0
  /\ executed = <<>>
  /\ released = <<>>
  /\ qlast = Returned("none", "none")
  /\ ReleaseQueueInit

InitRepo ==
  /\ host_pc = "idle"
  /\ ~initialized
  /\ efd_read' = 0
  /\ efd_write' = 0
  /\ efd_empty' = 0
  /\ initialized' = TRUE
  /\ repo_status' = "INIT"
  /\ consumer_pc' = "StartConsume"
  /\ InitReleaseQueue
  /\ UNCHANGED <<avars, qlast, read_idx, write_idx, datas, read_working, write_working,
                 need_empty, host_pc, ncopied, executed, released>>

\* (EnqueueAllowedByStatus: the test of initialized left out)
EnqueueAllowedByStatus == repo_status \in {"RUN", "INIT"}

\* the two tests at the entry of Enqueue
EnqueueAllowed == initialized /\ repo_status \in {"RUN", "INIT"}

\* Enqueue up to SetWriteWorking(true); the two early returns log an error and
\* leave everything alone
Enqueue ==
  /\ host_pc = "idle"
  /\ ~Terminated
  /\ ncopied < MaxRecords
  /\ IF EnqueueAllowed
     THEN write_working' = TRUE /\ host_pc' = "WriteQueue" /\ UNCHANGED qlast
     ELSE qlast' = Returned("Enqueue", "logged") /\ UNCHANGED <<write_working, host_pc>>
  /\ UNCHANGED <<avars, rvars, initialized, repo_status, read_idx, write_idx, datas,
                 read_working, need_empty, efd_read, efd_write, efd_empty, consumer_pc,
                 ncopied, executed, released>>

\* Enqueue called by another thread while the destructor runs: the status has
\* left RUN and INIT, so the call logs an error and returns
EnqueueLate ==
  /\ host_pc \in {"DestructorWake", "DestructorJoin"}
  /\ ~Terminated
  /\ ~EnqueueAllowed
  /\ qlast # Returned("Enqueue", "logged")
  /\ qlast' = Returned("Enqueue", "logged")
  /\ UNCHANGED <<avars, rvars, initialized, repo_status, read_idx, write_idx, datas,
                 read_working, write_working, need_empty, efd_read, efd_write,
                 efd_empty, host_pc, consumer_pc, ncopied, executed, released>>

\* Dequeue called before InitRepo: it logs an error and returns
DequeueUninit ==
  /\ ~initialized
  /\ qlast # Returned("Dequeue", "logged")
  /\ qlast' = Returned("Dequeue", "logged")
  /\ UNCHANGED <<avars, rvars, initialized, repo_status, read_idx, write_idx, datas,
                 read_working, write_working, need_empty, efd_read, efd_write,
                 efd_empty, host_pc, consumer_pc, ncopied, executed, released>>

\* ret = WriteQueue(cur_paras): the record copied is the (ncopied + 1)-th
WriteQueue ==
  /\ host_pc = "WriteQueue"
  /\ ~Terminated
  /\ IF IsFullQueue
     THEN /\ host_pc' = "EnqueueFull"
          /\ UNCHANGED <<datas, write_idx, ncopied>>
     ELSE /\ datas' = [datas EXCEPT ![write_idx] = ncopied + 1]
          /\ write_idx' = NextIdx(write_idx)
          /\ ncopied' = ncopied + 1
          /\ host_pc' = "EnqueueNotify"
  /\ UNCHANGED <<avars, rvars, qlast, initialized, repo_status, read_idx, read_working,
                 write_working, need_empty, efd_read, efd_write, efd_empty, consumer_pc,
                 executed, released>>

\* ret == false: SetWriteWorking(false)
EnqueueFull ==
  /\ host_pc = "EnqueueFull"
  /\ ~Terminated
  /\ write_working' = FALSE
  /\ host_pc' = "EnqueueRecheck"
  /\ UNCHANGED <<avars, rvars, qlast, initialized, repo_status, read_idx, write_idx, datas,
                 read_working, need_empty, efd_read, efd_write, efd_empty, consumer_pc,
                 ncopied, executed, released>>

\* (ProducerWaitsBlind: the producer blocks without the second test)
ProducerWaitsBlind == TRUE

\* the second test of the producer, after SetWriteWorking(false)
ProducerWaits == IsFullQueue

\* if (IsFullQueue()) ... else continue
EnqueueRecheck ==
  /\ host_pc = "EnqueueRecheck"
  /\ ~Terminated
  /\ host_pc' = IF ProducerWaits THEN "EnqueueWait" ELSE "WriteQueue"
  /\ UNCHANGED <<avars, rvars, qlast, initialized, repo_status, read_idx, write_idx, datas,
                 read_working, write_working, need_empty, efd_read, efd_write,
                 efd_empty, consumer_pc, ncopied, executed, released>>

\* s = eventfd_read(efd_write, &u): blocks while the counter is 0, fails on a
\* closed descriptor (Enqueue logs the error and returns)
EnqueueWait ==
  /\ host_pc = "EnqueueWait"
  /\ ~Terminated
  /\ efd_write # 0
  /\ IF efd_write = Closed
     THEN /\ host_pc' = "idle"
          /\ qlast' = Returned("Enqueue", "logged")
          /\ UNCHANGED efd_write
     ELSE /\ host_pc' = "EnqueueWoken"
          /\ efd_write' = 0
          /\ UNCHANGED qlast
  /\ UNCHANGED <<avars, rvars, initialized, repo_status, read_idx, write_idx, datas,
                 read_working, write_working, need_empty, efd_read, efd_empty,
                 consumer_pc, ncopied, executed, released>>

\* SetWriteWorking(true); continue
EnqueueWoken ==
  /\ host_pc = "EnqueueWoken"
  /\ ~Terminated
  /\ write_working' = TRUE
  /\ host_pc' = "WriteQueue"
  /\ UNCHANGED <<avars, rvars, qlast, initialized, repo_status, read_idx, write_idx, datas,
                 read_working, need_empty, efd_read, efd_write, efd_empty, consumer_pc,
                 ncopied, executed, released>>

\* while (!IsReadWorking()) { eventfd_write(efd_read, u); break; }
EnqueueNotify ==
  /\ host_pc = "EnqueueNotify"
  /\ ~Terminated
  /\ IF read_working
     THEN host_pc' = "EnqueueDone" /\ UNCHANGED <<efd_read, qlast>>
     ELSE IF efd_read = Closed
     THEN /\ host_pc' = "idle"
          /\ qlast' = Returned("Enqueue", "logged")
          /\ UNCHANGED efd_read
     ELSE /\ host_pc' = "EnqueueDone"
          /\ efd_read' = EventfdWrite(efd_read)
          /\ UNCHANGED qlast
  /\ UNCHANGED <<avars, rvars, initialized, repo_status, read_idx, write_idx, datas,
                 read_working, write_working, need_empty, efd_write, efd_empty,
                 consumer_pc, ncopied, executed, released>>

\* SetWriteWorking(false); return
EnqueueDone ==
  /\ host_pc = "EnqueueDone"
  /\ ~Terminated
  /\ write_working' = FALSE
  /\ host_pc' = "idle"
  /\ qlast' = Returned("Enqueue", "done")
  /\ UNCHANGED <<avars, rvars, initialized, repo_status, read_idx, write_idx, datas,
                 read_working, need_empty, efd_read, efd_write, efd_empty, consumer_pc,
                 ncopied, executed, released>>

\* MakeSureQueueEmpty up to the first test of the loop; FAILED when not initialised
MakeSureQueueEmpty ==
  /\ host_pc = "idle"
  /\ ~Terminated
  /\ IF initialized
     THEN host_pc' = "MakeSureLoop" /\ UNCHANGED qlast
     ELSE host_pc' = "idle" /\ qlast' = Returned("MakeSureQueueEmpty", "FAILED")
  /\ UNCHANGED <<avars, rvars, initialized, repo_status, read_idx, write_idx, datas,
                 read_working, write_working, need_empty, efd_read, efd_write,
                 efd_empty, consumer_pc, ncopied, executed, released>>

\* while (!IsEmptyQueue()) { need_empty = true; ... } return SUCCESS
MakeSureLoop ==
  /\ host_pc = "MakeSureLoop"
  /\ ~Terminated
  /\ IF IsEmptyQueue
     THEN /\ host_pc' = "idle"
          /\ qlast' = Returned("MakeSureQueueEmpty", "SUCCESS")
          /\ UNCHANGED need_empty
     ELSE /\ host_pc' = "MakeSureCheck"
          /\ need_empty' = TRUE
          /\ UNCHANGED qlast
  /\ UNCHANGED <<avars, rvars, initialized, repo_status, read_idx, write_idx, datas,
                 read_working, write_working, efd_read, efd_write, efd_empty,
                 consumer_pc, ncopied, executed, released>>

\* the double check: if (!IsEmptyQueue()) eventfd_read(...); need_empty = false
MakeSureCheck ==
  /\ host_pc = "MakeSureCheck"
  /\ ~Terminated
  /\ IF IsEmptyQueue
     THEN host_pc' = "MakeSureLoop" /\ need_empty' = FALSE
     ELSE host_pc' = "MakeSureWait" /\ UNCHANGED need_empty
  /\ UNCHANGED <<avars, rvars, qlast, initialized, repo_status, read_idx, write_idx, datas,
                 read_working, write_working, efd_read, efd_write, efd_empty,
                 consumer_pc, ncopied, executed, released>>

\* s = eventfd_read(efd_empty, &u); INTERNEL_ERROR on a closed descriptor
MakeSureWait ==
  /\ host_pc = "MakeSureWait"
  /\ ~Terminated
  /\ efd_empty # 0
  /\ IF efd_empty = Closed
     THEN /\ host_pc' = "idle"
          /\ qlast' = Returned("MakeSureQueueEmpty", "INTERNEL_ERROR")
          /\ UNCHANGED <<efd_empty, need_empty>>
     ELSE /\ host_pc' = "MakeSureLoop"
          /\ efd_empty' = 0
          /\ need_empty' = FALSE
          /\ UNCHANGED qlast
  /\ UNCHANGED <<avars, rvars, initialized, repo_status, read_idx, write_idx, datas,
                 read_working, write_working, efd_read, efd_write, consumer_pc,
                 ncopied, executed, released>>

\* ~Repository: SetStatus(NEED_EXIT)
DestructorSetStatus ==
  /\ host_pc = "idle"
  /\ ~Terminated
  /\ initialized
  /\ consumer_pc # "none"
  /\ repo_status' = "NEED_EXIT"
  /\ host_pc' = "DestructorWake"
  /\ UNCHANGED <<avars, rvars, qlast, initialized, read_idx, write_idx, datas, read_working,
                 write_working, need_empty, efd_read, efd_write, efd_empty, consumer_pc,
                 ncopied, executed, released>>

\* (void)eventfd_write(efd_read, 1); // escape wait
DestructorWake ==
  /\ host_pc = "DestructorWake"
  /\ ~Terminated
  /\ efd_read' = IF efd_read = Closed THEN Closed ELSE EventfdWrite(efd_read)
  /\ host_pc' = "DestructorJoin"
  /\ UNCHANGED <<avars, rvars, qlast, initialized, repo_status, read_idx, write_idx, datas,
                 read_working, write_working, need_empty, efd_write, efd_empty,
                 consumer_pc, ncopied, executed, released>>

\* consumer.join(); eventfd_write(efd_empty, 1); ReleaseResource()
DestructorJoin ==
  /\ host_pc = "DestructorJoin"
  /\ consumer_pc = "exited"
  /\ efd_read' = Closed
  /\ efd_write' = Closed
  /\ efd_empty' = Closed
  /\ host_pc' = "destroyed"
  /\ UNCHANGED <<avars, rvars, qlast, initialized, repo_status, read_idx, write_idx, datas,
                 read_working, write_working, need_empty, consumer_pc, ncopied,
                 executed, released>>

\* while (repo->GetStatus() != CAN_EXIT) repo->Dequeue(): Dequeue up to
\* SetReadWorking(true)
StartConsume ==
  /\ consumer_pc = "StartConsume"
  /\ IF repo_status = "CAN_EXIT"
     THEN consumer_pc' = "exited" /\ UNCHANGED read_working
     ELSE consumer_pc' = "DequeueLoop" /\ read_working' = TRUE
  /\ UNCHANGED <<avars, rvars, qlast, initialized, repo_status, read_idx, write_idx, datas,
                 write_working, need_empty, efd_read, efd_write, efd_empty, host_pc,
                 ncopied, executed, released>>

\* the head of the loop of Dequeue and ReadQueue up to manager().Call: execute
\* is invoked on the record of slot read_idx
ReadQueue ==
  /\ consumer_pc = "DequeueLoop"
  /\ IF repo_status = "CAN_EXIT"
     THEN consumer_pc' = "DequeueDone" /\ UNCHANGED executed
     ELSE IF IsEmptyQueue
     THEN consumer_pc' = "DequeueEmpty" /\ UNCHANGED executed
     ELSE consumer_pc' = "Call" /\ executed' = Append(executed, datas[read_idx])
  /\ UNCHANGED <<avars, rvars, qlast, initialized, repo_status, read_idx, write_idx, datas,
                 read_working, write_working, need_empty, efd_read, efd_write,
                 efd_empty, host_pc, ncopied, released>>

\* (ReleaseSlotAhead: the slot after read_idx released)
ReleaseSlotAhead == NextIdx(read_idx)

\* manager().Release(datas, read_idx.idx, releaseQueue) after a successful Call
ReleaseSlot == read_idx

\* the execute callback returns ret; on 0 ReadQueue releases the record and
\* advances read_idx
CallReturn(ret) ==
  /\ consumer_pc = "Call"
  /\ IF ret = 0
     THEN /\ released' = Append(released, datas[ReleaseSlot])
          /\ read_idx' = AdvanceRead(read_idx)
          /\ consumer_pc' = "DequeueNotifyEmpty"
     ELSE /\ consumer_pc' = "ReadQueueFail"
          /\ UNCHANGED <<released, read_idx>>
  /\ UNCHANGED <<avars, rvars, qlast, initialized, repo_status, write_idx, datas, read_working,
                 write_working, need_empty, efd_read, efd_write, efd_empty, host_pc,
                 ncopied, executed>>

\* (DrainNothing: the loop left at once)
DrainNothing == FALSE

\* while (!IsEmptyQueue()) in the failure path of ReadQueue
DrainMore == ~IsEmptyQueue

\* ret != 0: while (!IsEmptyQueue()) { Release; advance }, one pass of the loop
ReadQueueFail ==
  /\ consumer_pc = "ReadQueueFail"
  /\ IF DrainMore
     THEN /\ released' = Append(released, datas[read_idx])
          /\ read_idx' = NextIdx(read_idx)
          /\ UNCHANGED consumer_pc
     ELSE /\ consumer_pc' = "ReleaseResource"
          /\ UNCHANGED <<released, read_idx>>
  /\ UNCHANGED <<avars, rvars, qlast, initialized, repo_status, write_idx, datas, read_working,
                 write_working, need_empty, efd_read, efd_write, efd_empty, host_pc,
                 ncopied, executed>>

\* ReleaseResource(); throw std::runtime_error
ReleaseResource ==
  /\ consumer_pc = "ReleaseResource"
  /\ efd_read' = Closed
  /\ efd_write' = Closed
  /\ efd_empty' = Closed
  /\ consumer_pc' = "terminate"
  /\ UNCHANGED <<avars, rvars, qlast, initialized, repo_status, read_idx, write_idx, datas,
                 read_working, write_working, need_empty, host_pc, ncopied, executed,
                 released>>

\* (ExitRequestedAnyStatus: CAN_EXIT set whatever the status is)
ExitRequestedAnyStatus == TRUE

\* (ExitRequestedNever: the consumer does not look at the status)
ExitRequestedNever == FALSE

\* if (GetStatus() == RepoStatus::NEED_EXIT) after a ReadQueue that returned false
ExitRequested == repo_status = "NEED_EXIT"

\* ret == false: NEED_EXIT becomes CAN_EXIT, else SetReadWorking(false)
DequeueEmpty ==
  /\ consumer_pc = "DequeueEmpty"
  /\ IF ExitRequested
     THEN /\ repo_status' = "CAN_EXIT"
          /\ consumer_pc' = "DequeueDone"
          /\ UNCHANGED read_working
     ELSE /\ read_working' = FALSE
          /\ consumer_pc' = "DequeueRecheck"
          /\ UNCHANGED repo_status
  /\ UNCHANGED <<avars, rvars, qlast, initialized, read_idx, write_idx, datas, write_working,
                 need_empty, efd_read, efd_write, efd_empty, host_pc, ncopied, executed,
                 released>>

\* if (IsEmptyQueue()) ... else continue
DequeueRecheck ==
  /\ consumer_pc = "DequeueRecheck"
  /\ consumer_pc' = IF IsEmptyQueue THEN "DequeueWait" ELSE "DequeueLoop"
  /\ UNCHANGED <<avars, rvars, qlast, initialized, repo_status, read_idx, write_idx, datas,
                 read_working, write_working, need_empty, efd_read, efd_write,
                 efd_empty, host_pc, ncopied, executed, released>>

\* s = eventfd_read(efd_read, &u): blocks while the counter is 0
DequeueWait ==
  /\ consumer_pc = "DequeueWait"
  /\ efd_read > 0
  /\ efd_read' = 0
  /\ consumer_pc' = "DequeueWoken"
  /\ UNCHANGED <<avars, rvars, qlast, initialized, repo_status, read_idx, write_idx, datas,
                 read_working, write_working, need_empty, efd_write, efd_empty, host_pc,
                 ncopied, executed, released>>

\* SetReadWorking(true); continue
DequeueWoken ==
  /\ consumer_pc = "DequeueWoken"
  /\ read_working' = TRUE
  /\ consumer_pc' = "DequeueLoop"
  /\ UNCHANGED <<avars, rvars, qlast, initialized, repo_status, read_idx, write_idx, datas,
                 write_working, need_empty, efd_read, efd_write, efd_empty, host_pc,
                 ncopied, executed, released>>

\* (notify_empty_any: the test of IsEmptyQueue left out)
notify_empty_any == need_empty

\* notify_empty = need_empty && IsEmptyQueue()
notify_empty == need_empty /\ IsEmptyQueue

\* while (notify_empty) { eventfd_write(efd_empty, u); break; }
DequeueNotifyEmpty ==
  /\ consumer_pc = "DequeueNotifyEmpty"
  /\ efd_empty' = IF notify_empty /\ efd_empty # Closed
                  THEN EventfdWrite(efd_empty) ELSE efd_empty
  /\ consumer_pc' = "DequeueNotifyWrite"
  /\ UNCHANGED <<avars, rvars, qlast, initialized, repo_status, read_idx, write_idx, datas,
                 read_working, write_working, need_empty, efd_read, efd_write, host_pc,
                 ncopied, executed, released>>

\* while (!IsWriteWorking()) { eventfd_write(efd_write, u); break; }
DequeueNotifyWrite ==
  /\ consumer_pc = "DequeueNotifyWrite"
  /\ efd_write' = IF ~write_working /\ efd_write # Closed
                  THEN EventfdWrite(efd_write) ELSE efd_write
  /\ consumer_pc' = "DequeueDone"
  /\ UNCHANGED <<avars, rvars, qlast, initialized, repo_status, read_idx, write_idx, datas,
                 read_working, write_working, need_empty, efd_read, efd_empty, host_pc,
                 ncopied, executed, released>>

\* SetReadWorking(false); return to StartConsume
DequeueDone ==
  /\ consumer_pc = "DequeueDone"
  /\ read_working' = FALSE
  /\ consumer_pc' = "StartConsume"
  /\ UNCHANGED <<avars, rvars, qlast, initialized, repo_status, read_idx, write_idx, datas,
                 write_working, need_empty, efd_read, efd_write, efd_empty, host_pc,
                 ncopied, executed, released>>

\* the steps of the host thread and of the consumer thread
RepositoryNext ==
  \/ InitRepo
  \/ Enqueue
  \/ EnqueueLate
  \/ DequeueUninit
  \/ WriteQueue
  \/ EnqueueFull
  \/ EnqueueRecheck
  \/ EnqueueWait
  \/ EnqueueWoken
  \/ EnqueueNotify
  \/ EnqueueDone
  \/ MakeSureQueueEmpty
  \/ MakeSureLoop
  \/ MakeSureCheck
  \/ MakeSureWait
  \/ DestructorSetStatus
  \/ DestructorWake
  \/ DestructorJoin
  \/ StartConsume
  \/ ReadQueue
  \/ \E ret \in {0, 1} : CallReturn(ret)
  \/ ReadQueueFail
  \/ ReleaseResource
  \/ DequeueEmpty
  \/ DequeueRecheck
  \/ DequeueWait
  \/ DequeueWoken
  \/ DequeueNotifyEmpty
  \/ DequeueNotifyWrite
  \/ DequeueDone

-----------------------------------------------------------------------------
(* The allocator as a state machine: one action per entry point of         *)
(* THNCachingAllocator / the NPUCachingAllocator namespace.                *)

\* the allocator object assembled from the variables
Cur ==
  [blocks |-> blocks, large_blocks |-> large_blocks, small_blocks |-> small_blocks,
   active_blocks |-> active_blocks, npu_events |-> npu_events, stats |-> stats,
   total_allocated_memory |-> total_allocated_memory,
   allowed_memory_maximum |-> allowed_memory_maximum, set_fraction |-> set_fraction,
   shutdown_stats |-> shutdown_stats, assert_ok |-> assert_ok, hbm |-> hbm,
   obs |-> NoObs]

Commit(a) ==
  /\ blocks' = a.blocks
  /\ large_blocks' = a.large_blocks
  /\ small_blocks' = a.small_blocks
  /\ active_blocks' = a.active_blocks
  /\ npu_events' = a.npu_events
  /\ stats' = a.stats
  /\ total_allocated_memory' = a.total_allocated_memory
  /\ allowed_memory_maximum' = a.allowed_memory_maximum
  /\ set_fraction' = a.set_fraction
  /\ shutdown_stats' = a.shutdown_stats
  /\ assert_ok' = a.assert_ok
  /\ hbm' = a.hbm

NoInfo == [size |-> 0, stream |-> NULL, cached |-> FALSE, found_size |-> 0,
           found_stream |-> NULL, split |-> FALSE]

Observe(op, block, ptr, info, obs) ==
  [op |-> op, block |-> block, ptr |-> ptr, info |-> info, obs |-> obs]

\* the state after construction, PYTORCH_NPU_ALLOC_CONF giving max_split_size
\* and garbage_collection_threshold, on a device of `total` bytes
AllocatorConstructed(max_split_size, gc_threshold, total) ==
  /\ m_max_split_size = max_split_size
  /\ device_total = total
  /\ m_garbage_collection_threshold = gc_threshold
  /\ mutex = NULL
  /\ thread_pc = [t \in Threads |-> "idle"]
  /\ blocks = <<>>
  /\ large_blocks = {}
  /\ small_blocks = {}
  /\ active_blocks = {}
  /\ npu_events = [s \in Streams |-> <<>>]
  /\ stats = InitStats
  /\ total_allocated_memory = 0
  /\ allowed_memory_maximum = 0
  /\ set_fraction = FALSE
  /\ shutdown_stats = FALSE
  /\ assert_ok = TRUE
  /\ allocated_blocks = {}
  /\ hbm = {}
  /\ last = Observe("init", NULL, NULL, NoInfo, NoObs)
  /\ ncalls = 0
  /\ acc_base = CurrentOf(InitStats)

\* garbage_collection_threshold left at its default, 0
AllocatorInitOn(max_split_size, total) ==
  AllocatorConstructed(max_split_size, <<0, 1>>, total)

AllocatorInit(max_split_size) == AllocatorInitOn(max_split_size, DeviceTotal)

\* raw_alloc_with_stream(nbytes, stream) -> THNCachingAllocator::malloc
Malloc(nbytes, stream, u) ==
  /\ ncalls < MaxMalloc
  /\ \E r \in {malloc(Cur, nbytes, stream, u)} :
     \E ptr \in {IF r.block = NULL THEN NULL ELSE r.a.blocks[r.block].ptr} :
     /\ Commit(r.a)
     /\ allocated_blocks' =
          IF r.block = NULL THEN allocated_blocks
          ELSE {e \in allocated_blocks : e[1] # ptr} \cup {<<ptr, r.block, nbytes>>}
     /\ last' = Observe("malloc", r.block, ptr, r.info, r.a.obs)
  /\ ncalls' = ncalls + 1
  /\ UNCHANGED <<qvars, rvars, tvars, acc_base, m_max_split_size, m_garbage_collection_threshold, device_total>>

\* raw_delete(ptr) -> THNCachingAllocator::free, ptr the address of an allocated block
Free(e) ==
  /\ e \in allocated_blocks
  /\ \E a \in {free(Cur, e[2])} :
     /\ Commit(a)
     /\ last' = Observe("free", e[2], e[1], NoInfo, a.obs)
  /\ allocated_blocks' = allocated_blocks \ {e}
  /\ UNCHANGED <<qvars, rvars, tvars, acc_base, m_max_split_size, m_garbage_collection_threshold, device_total, ncalls>>

RecordStream(e, stream) ==
  /\ e \in allocated_blocks
  /\ stream \notin blocks[e[2]].stream_uses
  /\ Commit(recordStream(Cur, e[2], stream))
  /\ UNCHANGED <<qvars, rvars, tvars, acc_base, m_max_split_size, m_garbage_collection_threshold, device_total, ncalls,
                 allocated_blocks, last>>

EraseStream(e, stream) ==
  /\ e \in allocated_blocks
  /\ stream \in blocks[e[2]].stream_uses
  /\ Commit(eraseStream(Cur, e[2], stream))
  /\ UNCHANGED <<qvars, rvars, tvars, acc_base, m_max_split_size, m_garbage_collection_threshold, device_total, ncalls,
                 allocated_blocks, last>>

\* the device reaches the oldest pending event recorded on `stream`
EventComplete(stream) ==
  /\ \E i \in 1 .. Len(npu_events[stream]) :
       /\ ~npu_events[stream][i].done
       /\ \A j \in 1 .. i - 1 : npu_events[stream][j].done
       /\ npu_events' = [npu_events EXCEPT ![stream][i].done = TRUE]
  /\ UNCHANGED <<qvars, rvars, tvars, acc_base, m_max_split_size, m_garbage_collection_threshold, device_total, blocks, large_blocks,
                 small_blocks, active_blocks, stats, total_allocated_memory,
                 allowed_memory_maximum, set_fraction, shutdown_stats, assert_ok,
                 allocated_blocks, hbm, last, ncalls>>

EmptyCache(u) ==
  /\ \E a \in {emptyCache(Cur, u)} :
     /\ Commit(a)
     /\ last' = Observe("empty_cache", NULL, NULL, NoInfo, a.obs)
  /\ UNCHANGED <<qvars, rvars, tvars, acc_base, m_max_split_size, m_garbage_collection_threshold, device_total, ncalls,
                 allocated_blocks>>

SetShutdownStats ==
  /\ ~shutdown_stats
  /\ shutdown_stats' = TRUE
  /\ UNCHANGED <<qvars, rvars, tvars, acc_base, m_max_split_size, m_garbage_collection_threshold, device_total, blocks, large_blocks,
                 small_blocks, active_blocks, npu_events, stats, total_allocated_memory,
                 allowed_memory_maximum, set_fraction, assert_ok, allocated_blocks, hbm,
                 last, ncalls>>

ResetAccumulatedStats ==
  /\ stats' = resetAccumulatedStats(stats)
  /\ acc_base' = CurrentOf(stats)
  /\ UNCHANGED <<qvars, rvars, tvars, m_max_split_size, m_garbage_collection_threshold, device_total, blocks, large_blocks,
                 small_blocks, active_blocks, npu_events, total_allocated_memory,
                 allowed_memory_maximum, set_fraction, shutdown_stats, assert_ok,
                 allocated_blocks, hbm, last, ncalls>>

ResetPeakStats ==
  /\ resetPeakStats(stats) # stats
  /\ stats' = resetPeakStats(stats)
  /\ UNCHANGED <<qvars, rvars, tvars, acc_base, m_max_split_size, m_garbage_collection_threshold, device_total, blocks, large_blocks,
                 small_blocks, active_blocks, npu_events, total_allocated_memory,
                 allowed_memory_maximum, set_fraction, shutdown_stats, assert_ok,
                 allocated_blocks, hbm, last, ncalls>>

\* the calls of a client that requests sizes of `sizes`
\* setMemoryFraction(fraction, device)
SetMemoryFraction(frac) ==
  /\ \E a \in {setMemoryFraction(Cur, frac)} : Commit(a)
  /\ UNCHANGED <<qvars, rvars, tvars, acc_base, m_max_split_size, m_garbage_collection_threshold,
                 device_total, ncalls, allocated_blocks, last>>

-----------------------------------------------------------------------------
(* THNCachingAllocator: the calls that take a device pointer               *)

\* (get_allocated_block_any: any block of the heap at that address, allocated or not)
get_allocated_block_any(ab, ptr) ==
  IF \E b \in DOMAIN blocks : blocks[b].ptr = ptr
  THEN CHOOSE b \in DOMAIN blocks : blocks[b].ptr = ptr
  ELSE NULL

\* allocated_blocks.find(ptr): the Block* or nullptr
get_allocated_block(ab, ptr) ==
  IF \E e \in ab : e[1] = ptr THEN (CHOOSE e \in ab : e[1] = ptr)[2] ELSE NULL

\* THNCachingAllocator::free(ptr): [a, allocated_blocks, err]
raw_delete(a, ab, ptr) ==
  IF ptr = NULL THEN [a |-> a, allocated_blocks |-> ab, err |-> "none"]
  ELSE Only({
    IF block = NULL
    THEN [a |-> a, allocated_blocks |-> ab, err |-> "invalid device pointer"]
    ELSE [a |-> free(a, block), allocated_blocks |-> {e \in ab : e[1] # ptr},
          err |-> "none"]
    : block \in {get_allocated_block(ab, ptr)} })

\* THNCachingAllocator::getBaseAllocation(ptr, outSize): [base, err]
getBaseAllocationOf(a, ab, ptr) ==
  Only({
    IF block = NULL THEN [base |-> <<NULL, 0>>, err |-> "invalid device pointer"]
    ELSE [base |-> getBaseAllocation(a.blocks, block), err |-> "none"]
    : block \in {get_allocated_block(ab, ptr)} })

\* THNCachingAllocator::eraseStream(ptr, stream): [a, err]
eraseStreamOf(a, ab, ptr, stream) ==
  IF ptr = NULL THEN [a |-> a, err |-> "none"]
  ELSE Only({
    IF block = NULL THEN [a |-> a, err |-> "invalid device pointer"]
    ELSE [a |-> eraseStream(a, block, stream), err |-> "none"]
    : block \in {get_allocated_block(ab, ptr)} })

\* the addresses a caller may pass: null, the start of a block of the heap, an
\* address inside one, the start of device memory
Pointers ==
  {NULL, DeviceBase} \cup {blocks[b].ptr : b \in DOMAIN blocks}
    \cup {blocks[b].ptr + kMinBlockSize : b \in DOMAIN blocks}

\* raw_delete(ptr)
RawDelete(ptr) ==
  /\ \E r \in {raw_delete(Cur, allocated_blocks, ptr)} :
     /\ Commit(r.a)
     /\ allocated_blocks' = r.allocated_blocks
     /\ last' = Observe(IF r.err = "none" THEN "raw_delete" ELSE r.err,
                        get_allocated_block(allocated_blocks, ptr), ptr, NoInfo, r.a.obs)
  /\ UNCHANGED <<qvars, rvars, tvars, acc_base, m_max_split_size, m_garbage_collection_threshold,
                 device_total, ncalls>>

\* getBaseAllocation(ptr, outSize)
GetBaseAllocation(ptr) ==
  /\ \E r \in {getBaseAllocationOf(Cur, allocated_blocks, ptr)} :
       last' = Observe(IF r.err = "none" THEN "getBaseAllocation" ELSE r.err,
                       get_allocated_block(allocated_blocks, ptr), r.base[1], NoInfo, NoObs)
  /\ UNCHANGED <<qvars, rvars, tvars, acc_base, m_max_split_size, m_garbage_collection_threshold,
                 device_total, blocks, large_blocks, small_blocks, active_blocks,
                 npu_events, stats, total_allocated_memory, allowed_memory_maximum,
                 set_fraction, shutdown_stats, assert_ok, allocated_blocks, hbm, ncalls>>

\* eraseStream(ptr, stream)
EraseStreamOf(ptr, stream) ==
  /\ \E r \in {eraseStreamOf(Cur, allocated_blocks, ptr, stream)} :
     /\ Commit(r.a)
     /\ last' = Observe(IF r.err = "none" THEN "eraseStream" ELSE r.err,
                        get_allocated_block(allocated_blocks, ptr), ptr, NoInfo, r.a.obs)
  /\ UNCHANGED <<qvars, rvars, tvars, acc_base, m_max_split_size, m_garbage_collection_threshold,
                 device_total, ncalls, allocated_blocks>>

-----------------------------------------------------------------------------
(* The public methods called from several threads: a method that declares  *)
(* std::lock_guard<std::recursive_mutex> lock(mutex) first acquires the    *)
(* mutex, runs its body and releases the mutex when it returns; a method   *)
(* without the declaration runs its statements with no lock.               *)

LockedMethods == {"malloc", "free", "emptyCache"}

\* std::lock_guard<std::recursive_mutex> lock(mutex): the constructor
Lock(t, method) ==
  /\ thread_pc[t] = "idle"
  /\ mutex = NULL
  /\ method = "malloc" => ncalls < MaxMalloc
  /\ method = "free" => allocated_blocks # {}
  /\ mutex' = t
  /\ thread_pc' = [thread_pc EXCEPT ![t] = method]
  /\ UNCHANGED <<qvars, rvars, acc_base, m_max_split_size, m_garbage_collection_threshold,
                 device_total, blocks, large_blocks, small_blocks, active_blocks,
                 npu_events, stats, total_allocated_memory, allowed_memory_maximum,
                 set_fraction, shutdown_stats, assert_ok, allocated_blocks, hbm, last,
                 ncalls>>

\* the destructor of the lock_guard at the method's return
Unlock(t) ==
  /\ mutex = t
  /\ mutex' = NULL
  /\ thread_pc' = [thread_pc EXCEPT ![t] = "idle"]

\* DeviceCachingAllocator::malloc below its lock declaration
ThreadMalloc(t, nbytes, stream, u) ==
  /\ thread_pc[t] = "malloc"
  /\ \E r \in {malloc(Cur, nbytes, stream, u)} :
     \E ptr \in {IF r.block = NULL THEN NULL ELSE r.a.blocks[r.block].ptr} :
     /\ Commit(r.a)
     /\ allocated_blocks' =
          IF r.block = NULL THEN allocated_blocks
          ELSE {e \in allocated_blocks : e[1] # ptr} \cup {<<ptr, r.block, nbytes>>}
     /\ last' = Observe("malloc", r.block, ptr, r.info, r.a.obs)
  /\ ncalls' = ncalls + 1
  /\ Unlock(t)
  /\ UNCHANGED <<qvars, rvars, acc_base, m_max_split_size, m_garbage_collection_threshold, device_total>>

\* DeviceCachingAllocator::free below its lock declaration
ThreadFree(t, e) ==
  /\ thread_pc[t] = "free"
  /\ e \in allocated_blocks
  /\ \E a \in {free(Cur, e[2])} :
     /\ Commit(a)
     /\ last' = Observe("free", e[2], e[1], NoInfo, a.obs)
  /\ allocated_blocks' = allocated_blocks \ {e}
  /\ Unlock(t)
  /\ UNCHANGED <<qvars, rvars, acc_base, m_max_split_size, m_garbage_collection_threshold, device_total, ncalls>>

\* DeviceCachingAllocator::emptyCache below its lock declaration
ThreadEmptyCache(t, u) ==
  /\ thread_pc[t] = "emptyCache"
  /\ \E a \in {emptyCache(Cur, u)} :
     /\ Commit(a)
     /\ last' = Observe("empty_cache", NULL, NULL, NoInfo, a.obs)
  /\ Unlock(t)
  /\ UNCHANGED <<qvars, rvars, acc_base, m_max_split_size, m_garbage_collection_threshold, device_total, ncalls,
                 allocated_blocks>>

\* DeviceCachingAllocator::setMemoryFraction, which declares no lock:
\* allowed_memory_maximum = static_cast<size_t>(fraction * device_total);
ThreadSetMemoryFraction(t, frac) ==
  /\ thread_pc[t] = "idle"
  /\ thread_pc' = [thread_pc EXCEPT ![t] = "setMemoryFraction"]
  /\ allowed_memory_maximum' = (frac[1] * device_total) \div frac[2]
  /\ UNCHANGED <<qvars, rvars, acc_base, m_max_split_size, m_garbage_collection_threshold,
                 device_total, blocks, large_blocks, small_blocks, active_blocks,
                 npu_events, stats, total_allocated_memory, set_fraction, shutdown_stats,
                 assert_ok, allocated_blocks, hbm, last, ncalls, mutex>>

\* set_fraction = true; and the return
ThreadSetFraction(t) ==
  /\ thread_pc[t] = "setMemoryFraction"
  /\ thread_pc' = [thread_pc EXCEPT ![t] = "idle"]
  /\ set_fraction' = TRUE
  /\ UNCHANGED <<qvars, rvars, acc_base, m_max_split_size, m_garbage_collection_threshold,
                 device_total, blocks, large_blocks, small_blocks, active_blocks,
                 npu_events, stats, total_allocated_memory, allowed_memory_maximum,
                 shutdown_stats, assert_ok, allocated_blocks, hbm, last, ncalls, mutex>>

\* DeviceCachingAllocator::devSetShutdownStats, which declares no lock: the call
ThreadDevSetShutdownStats(t) ==
  /\ thread_pc[t] = "idle"
  /\ ~shutdown_stats
  /\ thread_pc' = [thread_pc EXCEPT ![t] = "devSetShutdownStats"]
  /\ UNCHANGED <<qvars, rvars, acc_base, m_max_split_size, m_garbage_collection_threshold,
                 device_total, blocks, large_blocks, small_blocks, active_blocks,
                 npu_events, stats, total_allocated_memory, allowed_memory_maximum,
                 set_fraction, shutdown_stats, assert_ok, allocated_blocks, hbm, last,
                 ncalls, mutex>>

\* shutdown_stats = true; and the return
ThreadSetShutdown(t) ==
  /\ thread_pc[t] = "devSetShutdownStats"
  /\ thread_pc' = [thread_pc EXCEPT ![t] = "idle"]
  /\ shutdown_stats' = TRUE
  /\ UNCHANGED <<qvars, rvars, acc_base, m_max_split_size, m_garbage_collection_threshold,
                 device_total, blocks, large_blocks, small_blocks, active_blocks,
                 npu_events, stats, total_allocated_memory, allowed_memory_maximum,
                 set_fraction, assert_ok, allocated_blocks, hbm, last, ncalls, mutex>>

ThreadNext(sizes) ==
  \/ \E t \in Threads, method \in LockedMethods : Lock(t, method)
  \/ \E t \in Threads, n \in sizes, s \in Streams, u \in BOOLEAN : ThreadMalloc(t, n, s, u)
  \/ \E t \in Threads, e \in allocated_blocks : ThreadFree(t, e)
  \/ \E t \in Threads, u \in BOOLEAN : ThreadEmptyCache(t, u)
  \/ \E t \in Threads, frac \in Fractions : ThreadSetMemoryFraction(t, frac)
  \/ \E t \in Threads : ThreadSetFraction(t)
  \/ \E t \in Threads : ThreadDevSetShutdownStats(t)
  \/ \E t \in Threads : ThreadSetShutdown(t)

AllocatorNext(sizes) ==
  \/ \E n \in sizes, s \in Streams, u \in BOOLEAN : Malloc(n, s, u)
  \/ \E e \in allocated_blocks : Free(e)
  \/ \E e \in allocated_blocks, s \in Streams : RecordStream(e, s)
  \/ \E e \in allocated_blocks, s \in Streams : EraseStream(e, s)
  \/ \E s \in Streams : EventComplete(s)
  \/ \E u \in BOOLEAN : EmptyCache(u)
  \/ SetShutdownStats

vars == <<avars, qvars, rvars>>

\* the allocator under the default configuration
Init == AllocatorInit(SizeMax) /\ RepositoryInit
Next == AllocatorNext(Sizes)
Spec == Init /\ [][Next]_vars

\* the allocator with max_split_size_mb configured
InitSplit == (\E m \in SplitConfigs : AllocatorInit(m)) /\ RepositoryInit
NextSplit == AllocatorNext(OversizeSizes)
SpecSplit == InitSplit /\ [][NextSplit]_vars

\* the allocator with max_split_size_mb configured, on the larger device, asked
\* for oversize blocks only
InitOversize ==
  (\E m \in SplitConfigs : AllocatorInitOn(m, OversizeDevice)) /\ RepositoryInit
NextOversize == AllocatorNext(OversizeRequests)
SpecOversize == InitOversize /\ [][NextOversize]_vars

\* the allocator on the larger device, with and without max_split_size_mb
\* configured, asked for oversize blocks
InitAvailable ==
  (\E m \in SplitConfigs \cup {SizeMax} : AllocatorInitOn(m, OversizeDevice))
    /\ RepositoryInit
SpecAvailable == InitAvailable /\ [][NextOversize]_vars

\* the allocator asked for small blocks of two sizes
NextMixed == AllocatorNext(MixedSizes)
SpecMixed == Init /\ [][NextMixed]_vars

\* the allocator under the default configuration on a device that is short of
\* memory
InitRecovery ==
  (\E total \in RecoveryDevices : AllocatorInitOn(SizeMax, total)) /\ RepositoryInit
NextRecovery == AllocatorNext(RecoverySizes)
SpecRecovery == InitRecovery /\ [][NextRecovery]_vars

\* the allocator with garbage_collection_threshold configured and the memory
\* fraction set at any point
InitGc == AllocatorConstructed(SizeMax, GcThreshold, GcDevice) /\ RepositoryInit
NextGc ==
  \/ AllocatorNext(GcSizes)
  \/ \E frac \in Fractions : SetMemoryFraction(frac)
SpecGc == InitGc /\ [][NextGc]_vars

\* the allocator with max_split_size_mb and garbage_collection_threshold
\* configured and the memory fraction set at any point: every release path
InitRelease ==
  (\E m \in SplitConfigs : AllocatorConstructed(m, GcThreshold, OversizeDevice))
    /\ RepositoryInit
NextRelease ==
  \/ AllocatorNext(ReleaseSizes)
  \/ \E frac \in Fractions : SetMemoryFraction(frac)
SpecRelease == InitRelease /\ [][NextRelease]_vars

\* the allocator asked for 1 byte and for 1 MiB + 1 bytes
NextRounding == AllocatorNext(RoundingSizes)
SpecRounding == Init /\ [][NextRounding]_vars

\* the allocator called with any device pointer
NextPointers ==
  \/ AllocatorNext(PointerSizes)
  \/ \E ptr \in Pointers : RawDelete(ptr)
  \/ \E ptr \in Pointers : GetBaseAllocation(ptr)
  \/ \E ptr \in Pointers, s \in Streams : EraseStreamOf(ptr, s)
SpecPointers == Init /\ [][NextPointers]_vars

\* the allocator called from two threads
NextThreads == ThreadNext(Sizes)
SpecThreads == Init /\ [][NextThreads]_vars

\* the allocator with its statistics reset at any point
NextStats == Next \/ ResetAccumulatedStats \/ ResetPeakStats
SpecStats == Init /\ [][NextStats]_vars

\* the task queue
InitQ == AllocatorInit(SizeMax) /\ RepositoryInit
NextQ == RepositoryNext
SpecQ == InitQ /\ [][NextQ]_vars

\* the calls the host program may or may not make
HostCalls ==
  \/ InitRepo
  \/ Enqueue
  \/ EnqueueLate
  \/ DequeueUninit
  \/ MakeSureQueueEmpty
  \/ DestructorSetStatus

\* the steps inside a call of the host thread
HostSteps ==
  \/ WriteQueue
  \/ EnqueueFull
  \/ EnqueueRecheck
  \/ EnqueueWait
  \/ EnqueueWoken
  \/ EnqueueNotify
  \/ EnqueueDone
  \/ MakeSureLoop
  \/ MakeSureCheck
  \/ MakeSureWait
  \/ DestructorWake
  \/ DestructorJoin

\* the steps of the consumer thread when every execute callback returns 0
ConsumerSteps ==
  \/ StartConsume
  \/ ReadQueue
  \/ CallReturn(0)
  \/ DequeueEmpty
  \/ DequeueRecheck
  \/ DequeueWait
  \/ DequeueWoken
  \/ DequeueNotifyEmpty
  \/ DequeueNotifyWrite
  \/ DequeueDone

\* the steps of the consumer thread when an execute callback may return ret != 0
ConsumerStepsFailing ==
  \/ ConsumerSteps
  \/ CallReturn(1)
  \/ ReadQueueFail
  \/ ReleaseResource

\* the steps of the thread that pushes and of the releaser thread
PusherSteps == WriteToReleaseQueue
ReleaserSteps ==
  \/ StartRelease
  \/ ReadFromReleaseQueue
  \/ ReleaseParamReturn
  \/ PopEmpty

\* the release queue under a fair scheduler: the host thread initialises the
\* Repository and may destroy the release queue, a thread pushes parameter
\* blocks, the releaser pops them; a thread that can take a step inside a call
\* takes it eventually
NextRelQ ==
  \/ InitRepo
  \/ PushToReleaseQueue
  \/ ReleaseQueueDestructor
  \/ ReleaserJoin
  \/ PusherSteps
  \/ ReleaserSteps
SpecRelQ ==
  InitQ /\ [][NextRelQ]_vars /\ WF_vars(PusherSteps) /\ WF_vars(ReleaserSteps)
      /\ WF_vars(ReleaserJoin)

\* the task queue under a fair scheduler: a thread that can take a step inside
\* a call takes it eventually (each thread has one enabled step at most, and a
\* blocked eventfd_read stays enabled once the counter is positive); the host
\* program is free to make no further call
NextQLive == HostCalls \/ HostSteps \/ ConsumerSteps
SpecQLive == InitQ /\ [][NextQLive]_vars /\ WF_vars(HostSteps) /\ WF_vars(ConsumerSteps)

\* the same with execute callbacks that may fail
NextQFair == HostCalls \/ HostSteps \/ ConsumerStepsFailing
SpecQFair ==
  InitQ /\ [][NextQFair]_vars /\ WF_vars(HostSteps) /\ WF_vars(ConsumerStepsFailing)

-----------------------------------------------------------------------------
(* Properties of the allocator                                             *)

\* the block has an entry in the pending-event deque of some stream
InDeque(b) ==
  \E s \in Streams : \E i \in 1 .. Len(npu_events[s]) : npu_events[s][i].block = b

\* the block is in the free set of its pool
InFreeSet(b) == b \in (IF blocks[b].is_small THEN small_blocks ELSE large_blocks)

\* the call made by this step waited for the device before it touched the deques
\* (synchronize_and_free_events, reached from emptyCache and from malloc's last retry)
StepSynchronised ==
  last' # last /\ last'.op \in {"malloc", "empty_cache"} /\ last'.obs.syncs > 0

\* what one step may do to blocks that wait for events
EventOrderedReuseStep ==
  /\ (ncalls' # ncalls /\ last'.block # NULL) =>
       /\ blocks'[last'.block].event_count = 0
       /\ \A s \in Streams : \A i \in 1 .. Len(npu_events'[s]) :
            npu_events'[s][i].block # last'.block
  /\ \A s \in Streams : \A i \in 1 .. Len(npu_events[s]) :
       ~npu_events[s][i].done =>
         \/ StepSynchronised
         \/ /\ npu_events[s][i].block \in DOMAIN blocks'
            /\ ~blocks'[npu_events[s][i].block].allocated
            /\ blocks'[npu_events[s][i].block].event_count > 0
            /\ npu_events[s][i].block \notin (small_blocks' \cup large_blocks')

\* C2 (event-ordered reuse): the block a malloc returns has event_count 0 and no
\* entry in any deque; and as long as an event recorded for a freed block has not
\* completed, no step hands the block out or puts it into a free set, unless the
\* call of that step synchronised with the device first.
C2_EventOrderedReuse == [][EventOrderedReuseStep]_vars

\* a malloc has just returned another block although a block of the requested
\* stream and of sufficient size is waiting for an event that has not completed
C2_Witness ==
  /\ last.op = "malloc"
  /\ last.block # NULL
  /\ \E s \in Streams : \E i \in 1 .. Len(npu_events[s]) :
       /\ ~npu_events[s][i].done
       /\ npu_events[s][i].block # last.block
       /\ blocks[npu_events[s][i].block].stream = last.info.stream
       /\ blocks[npu_events[s][i].block].size >= last.info.size

\* the number of the three structures of C3 the block is a member of
Memberships(b) ==
  (IF InFreeSet(b) THEN 1 ELSE 0) + (IF b \in active_blocks THEN 1 ELSE 0)
    + (IF InDeque(b) THEN 1 ELSE 0)

\* C3 as stated (pool exclusivity over three structures): every live block is in
\* exactly one of the free set of its pool, active_blocks and the pending-event
\* deques.
C3_ExactlyOneOfThree == \A b \in DOMAIN blocks : Memberships(b) = 1

\* C3 (pool exclusivity, amended): every live block is in exactly one of the free
\* set of its pool and active_blocks, and the two sets hold live blocks only; a
\* block is in a deque exactly when its event_count is positive, and such a block
\* is in active_blocks, not allocated and in no free set; a block of active_blocks
\* is allocated or waits for events.
C3_PoolExclusivity ==
  /\ small_blocks \cup large_blocks \cup active_blocks \subseteq DOMAIN blocks
  /\ \A b \in DOMAIN blocks :
       /\ InFreeSet(b) # (b \in active_blocks)
       /\ b \notin (IF blocks[b].is_small THEN large_blocks ELSE small_blocks)
       /\ InDeque(b) = (blocks[b].event_count > 0)
       /\ InDeque(b) => b \in active_blocks /\ ~blocks[b].allocated
       /\ (b \in active_blocks) = (blocks[b].allocated \/ blocks[b].event_count > 0)

\* a freed block waits in a deque and is still a member of active_blocks
C3_Witness ==
  \E b \in DOMAIN blocks : InDeque(b) /\ b \in active_blocks /\ ~blocks[b].allocated

\* C4 (no adjacent free blocks): every prev/next sibling of a block of a free set
\* is allocated or waits for events, and so is in no free set itself.
C4_NoAdjacentFree ==
  \A b \in small_blocks \cup large_blocks :
    \A c \in {blocks[b].prev, blocks[b].next} \ {NULL} :
      /\ blocks[c].allocated \/ blocks[c].event_count > 0
      /\ c \notin small_blocks \cup large_blocks

\* the free of the second of two blocks split from one small segment has merged
\* the block with both of its siblings: the whole segment is one free block again
C4_Witness ==
  /\ last.op = "free"
  /\ ncalls >= 2
  /\ Cardinality(hbm) = 1
  /\ last.block \in small_blocks
  /\ ~is_split(blocks[last.block])
  /\ blocks[last.block].size = kSmallBuffer

\* C5 (stream locality): a malloc served from a free set got a block whose
\* allocation stream is the stream of the request.
C5_StreamLocality ==
  (last.op = "malloc" /\ last.info.cached) => last.info.found_stream = last.info.stream

\* get_free_block refused the only candidate because it belongs to another stream,
\* and malloc went to the driver
C5_Witness ==
  /\ last.op = "malloc"
  /\ last.obs.reject = "stream"
  /\ last.block # NULL
  /\ ~last.info.cached
  /\ last.obs.dev_allocs = 1

\* C6 (segment conservation): sibling links are mutual and lead to the next
\* address; every chain starts at the base of a segment obtained from the driver
\* and its sizes add up to the size of that segment; every segment has a chain;
\* getBaseAllocation of an allocated block returns the base and size of the
\* segment the block lies in.
C6_SegmentConservation ==
  /\ \A b \in DOMAIN blocks :
       /\ blocks[b].size > 0
       /\ blocks[b].next # NULL =>
            /\ blocks[b].next \in DOMAIN blocks
            /\ blocks[blocks[b].next].prev = b
            /\ blocks[blocks[b].next].ptr = blocks[b].ptr + blocks[b].size
       /\ blocks[b].prev # NULL =>
            /\ blocks[b].prev \in DOMAIN blocks
            /\ blocks[blocks[b].prev].next = b
  /\ \A b \in DOMAIN blocks :
       blocks[b].prev = NULL =>
         [ptr |-> blocks[b].ptr, size |-> ChainSize(blocks, b)] \in hbm
  /\ \A seg \in hbm :
       \E b \in DOMAIN blocks : blocks[b].prev = NULL /\ blocks[b].ptr = seg.ptr
  /\ \A e \in allocated_blocks :
       /\ e[2] \in DOMAIN blocks
       /\ blocks[e[2]].ptr = e[1]
       /\ \E seg \in hbm :
            /\ seg.ptr <= e[1]
            /\ e[1] < seg.ptr + seg.size
            /\ getBaseAllocation(blocks, e[2]) = <<seg.ptr, seg.size>>

\* an allocated block in the middle of a chain: it was split off after its
\* predecessor and a remainder follows it
C6_Witness ==
  \E e \in allocated_blocks :
    /\ blocks[e[2]].prev # NULL
    /\ blocks[e[2]].next # NULL
    /\ getBaseAllocation(blocks, e[2])[1] < e[1]

ByteStats == {"allocated_bytes", "reserved_bytes", "active_bytes", "inactive_split_bytes"}

\* C7 (stat coherence across pools): for allocated, reserved, active and
\* inactive-split bytes the current values of the small pool and of the large pool
\* add up to the aggregate current value.
C7_PoolsSumToAggregate ==
  \A n \in ByteStats :
    stats[n]["SMALL_POOL"].current + stats[n]["LARGE_POOL"].current
      = stats[n]["AGGREGATE"].current

\* every Stat of DeviceStats with the value of the same Stat at the last
\* resetAccumulatedStats
StatsWithBase ==
  {<<stats[n][t], acc_base[n][t]>> : n \in StatNames, t \in StatTypeSet}
    \cup {<<stats.oversize_allocations, acc_base.oversize_allocations>>,
          <<stats.oversize_segments, acc_base.oversize_segments>>}

\* C8 as stated (stat coherence per counter): every stat has current <= peak and
\* allocated - freed = current, resets included.
C8_AllocatedMinusFreedIsCurrent ==
  \A sb \in StatsWithBase :
    sb[1].current <= sb[1].peak /\ sb[1].allocated - sb[1].freed = sb[1].current

\* C8 (stat coherence per counter, amended): every stat has current <= peak, and
\* allocated - freed is the change of current since the last
\* resetAccumulatedStats (since construction when there was none).
C8_StatCoherence ==
  \A sb \in StatsWithBase :
    sb[1].current <= sb[1].peak /\ sb[1].allocated - sb[1].freed = sb[1].current - sb[2]

\* the accumulated totals were reset while memory was in use and have counted a
\* later allocation and a later release
C8_Witness ==
  \E n \in ByteStats :
    /\ acc_base[n]["AGGREGATE"] > 0
    /\ stats[n]["AGGREGATE"].allocated > 0
    /\ stats[n]["AGGREGATE"].freed > 0

\* C9 (oversize non-split): a block that malloc splits is smaller than
\* max_split_size.
C9_OversizeNeverSplit ==
  (last.op = "malloc" /\ last.info.split) => last.info.found_size < m_max_split_size

\* C10 (oversize blocks are not lent): a malloc whose rounded size is below
\* max_split_size and which is served from a free set got a block smaller than
\* max_split_size.
C10_OversizeNotLent ==
  (last.op = "malloc" /\ last.info.cached /\ last.info.size < m_max_split_size)
    => last.info.found_size < m_max_split_size

\* get_free_block refused a free oversize block of the request's stream for a
\* smaller request, and malloc went on without it
C10_Witness ==
  /\ last.op = "malloc"
  /\ last.obs.reject = "oversize"
  /\ last.info.size < m_max_split_size
  /\ last.block # NULL

-----------------------------------------------------------------------------
(* Properties of the task queue                                            *)

\* C1 (submission ring FIFO): the k-th invocation of execute is on the k-th record
\* that Enqueue copied into the ring, so records are executed in the order they
\* were enqueued, and only records that were enqueued are executed.
C1_RingFifo ==
  /\ Len(executed) <= ncopied
  /\ \A k \in 1 .. Len(executed) : executed[k] = k

\* more records have been executed than the ring has slots: both indices have
\* wrapped around, and the producer has gone on behind the consumer
C1_Witness ==
  /\ Len(executed) > kQueueCapacity
  /\ write_idx < kQueueCapacity - 1
  /\ read_idx <= write_idx

\* C11 as stated (queue-full back-pressure): while nothing has been dequeued, the
\* Enqueue call that blocks on efd_write is the one after kQueueCapacity calls
\* that returned.
C11_BlocksAfterCapacity ==
  (host_pc = "EnqueueWait" /\ released = <<>>) => ncopied = kQueueCapacity

\* C11 (queue-full back-pressure, amended): while nothing has been dequeued, the
\* Enqueue call that blocks on efd_write is the kQueueCapacity-th (the ring is
\* full with kQueueCapacity - 1 records), and it does block: efd_write holds no
\* token; when that call is woken the ring is no longer full, so the WriteQueue
\* that follows the wake-up succeeds.
C11_BackPressure ==
  /\ (host_pc = "EnqueueWait" /\ released = <<>>) =>
       /\ ncopied = kQueueCapacity - 1
       /\ IsFullQueue
       /\ efd_write = 0
  /\ (host_pc = "EnqueueWoken" /\ ncopied = kQueueCapacity - 1) =>
       /\ ~IsFullQueue
       /\ Len(released) >= 1

\* the producer blocked with the ring full while the consumer was inside execute
\* of the first record, and has been woken after that record was dequeued
C11_Witness ==
  /\ host_pc = "EnqueueWoken"
  /\ ncopied = kQueueCapacity - 1
  /\ Len(executed) >= 1
  /\ released # <<>>

\* an execute callback has returned non-zero
ExecuteFailed == consumer_pc \in {"ReadQueueFail", "ReleaseResource", "terminate"}

\* the step is the return of MakeSureQueueEmpty with SUCCESS
DrainReturns ==
  /\ host_pc \in {"MakeSureLoop", "MakeSureCheck", "MakeSureWait"}
  /\ host_pc' = "idle"
  /\ qlast' = Returned("MakeSureQueueEmpty", "SUCCESS")

\* the step is a write of the consumer to efd_empty
ConsumerSignalsEmpty == efd_empty # Closed /\ efd_empty' > efd_empty

\* C12 as stated (drain postcondition): when MakeSureQueueEmpty returns SUCCESS
\* the ring is empty and every record enqueued has been executed and released;
\* the consumer writes to efd_empty only when need_empty is set and the ring is
\* empty.
C12_DrainedAndExecuted ==
  [][/\ DrainReturns =>
          /\ IsEmptyQueue
          /\ Len(executed) = ncopied
          /\ Len(released) = ncopied
     /\ ConsumerSignalsEmpty => need_empty /\ IsEmptyQueue]_vars

\* C12 (drain postcondition, amended): when MakeSureQueueEmpty returns SUCCESS
\* the ring is empty and every record enqueued has been released; every record
\* has also been executed, unless an execute callback returned non-zero and the
\* consumer released the records behind it without executing them; the consumer
\* writes to efd_empty only when need_empty is set and the ring is empty.
C12_DrainPostcondition ==
  [][/\ DrainReturns =>
          /\ IsEmptyQueue
          /\ Len(released) = ncopied
          /\ Len(executed) = ncopied \/ ExecuteFailed
     /\ ConsumerSignalsEmpty => need_empty /\ IsEmptyQueue]_vars

\* an earlier drain has left its token in efd_empty (the consumer signalled, but
\* the double check of that drain saw the ring empty and did not read it); after
\* another Enqueue the next drain is about to read the stale token while the
\* ring is not empty
C12_Witness ==
  /\ host_pc = "MakeSureWait"
  /\ qlast = Returned("Enqueue", "done")
  /\ efd_empty >= 1
  /\ ~IsEmptyQueue

\* C14 (kernel-failure drain): once an execute callback has returned non-zero
\* the consumer invokes execute no more; the records are released in the order
\* they were enqueued, each once; when the drain loop ends the ring is empty and
\* every record enqueued so far, the failing one included, has been released;
\* only after the loop has ended does the consumer close its descriptors and
\* raise the error.
C14_FailureDrain ==
  [][/\ ExecuteFailed => executed' = executed
     /\ ExecuteFailed' =>
          /\ \A k \in 1 .. Len(released') : released'[k] = k
          /\ Len(executed') <= ncopied'
     /\ (consumer_pc = "ReadQueueFail" /\ consumer_pc' = "ReleaseResource") =>
          /\ IsEmptyQueue
          /\ Len(released) = ncopied
     /\ (consumer_pc' = "terminate" /\ consumer_pc # "terminate") =>
          /\ consumer_pc = "ReleaseResource"
          /\ efd_read' = Closed /\ efd_write' = Closed /\ efd_empty' = Closed
     /\ (host_pc # "DestructorJoin" /\ efd_read # Closed /\ efd_read' = Closed) =>
          consumer_pc = "ReleaseResource"]_vars

\* the consumer has raised the error after a failure with records behind the
\* failing one: they were released without having been executed
C14_Witness ==
  /\ consumer_pc = "terminate"
  /\ Len(executed) >= 2
  /\ Len(released) = ncopied
  /\ Len(released) >= Len(executed) + 2

\* the indices, flags, descriptors and records an ignored call must not touch
QueueUntouched ==
  UNCHANGED <<datas, write_idx, read_idx, write_working, read_working, need_empty,
              efd_read, efd_write, efd_empty, ncopied, executed, released,
              repo_status, initialized>>

\* C16 (shutdown violations are ignored): an Enqueue on an uninitialised queue
\* or on a queue whose status is NEED_EXIT or CAN_EXIT returns after logging,
\* without copying the record, without changing write_idx or write_working and
\* without signalling an eventfd; a Dequeue on an uninitialised queue returns
\* without effect; MakeSureQueueEmpty on an uninitialised queue returns FAILED
\* at once, without blocking.
C16_ViolationsIgnored ==
  [][/\ ((Enqueue \/ EnqueueLate)
          /\ (~initialized \/ repo_status \in {"NEED_EXIT", "CAN_EXIT"})) =>
          /\ QueueUntouched
          /\ qlast' = Returned("Enqueue", "logged")
          /\ host_pc' = host_pc
     /\ DequeueUninit =>
          /\ QueueUntouched
          /\ UNCHANGED <<host_pc, consumer_pc>>
     /\ (MakeSureQueueEmpty /\ ~initialized) =>
          /\ QueueUntouched
          /\ qlast' = Returned("MakeSureQueueEmpty", "FAILED")
          /\ host_pc' = "idle"]_vars

\* an Enqueue issued after the consumer has answered NEED_EXIT with CAN_EXIT
\* has been logged and ignored, on a queue that has carried records
C16_Witness ==
  /\ qlast = Returned("Enqueue", "logged")
  /\ repo_status = "CAN_EXIT"
  /\ ncopied >= 1
  /\ Len(released) = ncopied

\* the host thread is inside a call of Enqueue
InEnqueue ==
  host_pc \in {"WriteQueue", "EnqueueFull", "EnqueueRecheck", "EnqueueWait",
               "EnqueueWoken", "EnqueueNotify", "EnqueueDone"}

\* the host thread is inside a call of MakeSureQueueEmpty
InMakeSure == host_pc \in {"MakeSureLoop", "MakeSureCheck", "MakeSureWait"}

\* the calls return and the blocked threads are woken
CallsReturn ==
  /\ InEnqueue ~> host_pc = "idle"
  /\ InMakeSure ~> host_pc = "idle"
  /\ (host_pc = "EnqueueWait") ~> (host_pc = "EnqueueWoken")
  /\ (consumer_pc = "DequeueWait" /\ ~IsEmptyQueue) ~> (consumer_pc = "DequeueWoken")

\* the destructor has set NEED_EXIT
ShuttingDown == repo_status \in {"NEED_EXIT", "CAN_EXIT"}

\* C13 as stated (no lost wake-up): with one producer, one consumer and execute
\* callbacks that return 0, under fair scheduling every Enqueue call returns,
\* every record copied into the ring is executed, and every MakeSureQueueEmpty
\* call returns; a producer blocked on efd_write and a consumer blocked on
\* efd_read with a record in the ring are woken.
C13_EveryRecordExecuted ==
  /\ CallsReturn
  /\ \A k \in 1 .. MaxRecords : (ncopied >= k) ~> (Len(executed) >= k)

\* C13 (no lost wake-up), as the code has it: every Enqueue call and every
\* MakeSureQueueEmpty call returns, the blocked producer and the blocked
\* consumer are woken, and every record copied into the ring is executed
\* unless the destructor sets NEED_EXIT first: the consumer answers NEED_EXIT
\* with CAN_EXIT after a ReadQueue that found the ring empty, whatever has been
\* enqueued since.
C13_NoLostWakeup ==
  /\ CallsReturn
  /\ \A k \in 1 .. MaxRecords : (ncopied >= k) ~> (Len(executed) >= k \/ ShuttingDown)

\* the producer, blocked on efd_write with a full ring, has been woken by the
\* consumer, which had itself been woken from efd_read by an enqueue
C13_Witness ==
  /\ host_pc = "EnqueueWoken"
  /\ efd_write = 0
  /\ ncopied = kQueueCapacity - 1
  /\ Len(executed) = ncopied
  /\ consumer_pc = "DequeueWait"

\* the destructor has set NEED_EXIT and written its token to efd_read
ShutdownRequested == host_pc = "DestructorJoin"

\* the consumer has set CAN_EXIT and left its loop
ConsumerExited == consumer_pc = "exited" /\ repo_status = "CAN_EXIT"

\* C15 as stated (shutdown sufficiency): from any consumer state, once the
\* status is NEED_EXIT and one token is written to efd_read, the consumer
\* eventually sets CAN_EXIT and leaves its loop, and the join of the destructor
\* returns.
C15_AlwaysCanExit ==
  /\ ShutdownRequested ~> ConsumerExited
  /\ ShutdownRequested ~> (host_pc = "destroyed")

\* C15 (shutdown sufficiency), as the code has it: once the status is NEED_EXIT
\* and one token is written to efd_read, the consumer, whether executing a
\* record, between two calls of Dequeue, about to block or blocked on efd_read,
\* eventually sets CAN_EXIT and leaves its loop, and the join returns, unless
\* an execute callback returns non-zero: then the consumer drains the ring and
\* raises the error without ever setting CAN_EXIT.
C15_ShutdownSufficient ==
  /\ ShutdownRequested ~> (ConsumerExited \/ ExecuteFailed)
  /\ ShutdownRequested ~> (host_pc = "destroyed" \/ ExecuteFailed)
  /\ (ShutdownRequested /\ consumer_pc = "DequeueWait") ~> (consumer_pc # "DequeueWait")

\* the destructor has joined the consumer, which has set CAN_EXIT and left its
\* loop, after MakeSureQueueEmpty had seen every record executed
C15_Witness ==
  /\ host_pc = "destroyed"
  /\ ConsumerExited
  /\ ncopied >= 1
  /\ Len(executed) = ncopied
  /\ qlast = Returned("MakeSureQueueEmpty", "SUCCESS")

\* the parts of the allocator two states agree on
SameCache(a1, a2) ==
  /\ a2.blocks = a1.blocks
  /\ a2.large_blocks = a1.large_blocks
  /\ a2.small_blocks = a1.small_blocks
  /\ a2.active_blocks = a1.active_blocks
  /\ a2.npu_events = a1.npu_events
  /\ a2.stats = a1.stats
  /\ a2.hbm = a1.hbm
  /\ a2.total_allocated_memory = a1.total_allocated_memory

\* C19 (empty_cache idempotence, L2): in every state, a second empty_cache
\* issued right after a first one returns no block to the driver and leaves
\* the pools, the active set, the pending-event deques and all stats as the
\* first call left them; and an empty_cache step taken while the last call of
\* malloc, free or empty_cache was an empty_cache changes nothing.
C19_EmptyCacheIdempotent ==
  /\ [](\A u1 \in BOOLEAN, u2 \in BOOLEAN :
         \A a1 \in {emptyCache(Cur, u1)} :
           \A a2 \in {emptyCache([a1 EXCEPT !.obs = NoObs], u2)} :
             /\ a2.obs.dev_frees = 0
             /\ a2.obs.freed_bytes = 0
             /\ SameCache(a1, a2))
  /\ [][(last.op = "empty_cache" /\ \E u \in BOOLEAN : EmptyCache(u)) =>
          /\ last'.obs.dev_frees = 0
          /\ UNCHANGED <<blocks, large_blocks, small_blocks, active_blocks, npu_events,
                         stats, hbm, total_allocated_memory>>]_vars

\* an empty_cache has returned a segment to the driver and has left a split
\* block cached beside an active one: the state a second empty_cache starts from
C19_Witness ==
  /\ last.op = "empty_cache"
  /\ last.obs.dev_frees >= 1
  /\ small_blocks \cup large_blocks # {}
  /\ active_blocks # {}
  /\ stats["segment"]["AGGREGATE"].current >= 1

\* no pending event has completed: process_events frees nothing
NoEventDue ==
  \A s \in Streams : npu_events[s] = <<>> \/ ~EventQuery(Head(npu_events[s]))

\* the current values of the stats named `names` are the same in st1 and st2
SameCurrent(names, st1, st2) ==
  \A n \in names : \A t \in StatTypeSet : st1[n][t].current = st2[n][t].current

\* C18 as stated (stats round-trip, L1): in every state and for every n > 0,
\* malloc(n, s) followed at once by free of the returned block restores every
\* current value of the stats to its value before the malloc.
C18_AllCurrentRestored ==
  \A n \in Sizes, s \in Streams, u \in BOOLEAN :
    \A r \in {malloc(Cur, n, s, u)} :
      r.block # NULL => CurrentOf(free(r.a, r.block).stats) = CurrentOf(stats)

\* C18 (stats round-trip, L1), as the code has it: malloc(n, s) followed at once
\* by free of the returned block always restores the allocation count and the
\* allocated bytes (aggregate and per pool); it restores every current value
\* when the malloc was served from a cached block and no pending event had
\* completed; when the malloc took a new segment from the driver without
\* releasing cached blocks, the reserved bytes and the segment count stay
\* raised by that segment (the freed block is cached, not returned) and the
\* other current values are restored.  Peaks never fall.
C18_StatsRoundTrip ==
  \A n \in Sizes, s \in Streams, u \in BOOLEAN :
    \A r \in {malloc(Cur, n, s, u)} :
      r.block # NULL =>
        \A st \in {free(r.a, r.block).stats} :
          /\ SameCurrent({"allocation", "allocated_bytes"}, st, stats)
          /\ st.oversize_allocations.current = stats.oversize_allocations.current
          /\ (r.info.cached /\ NoEventDue) => CurrentOf(st) = CurrentOf(stats)
          /\ (~r.info.cached /\ NoEventDue /\ r.a.obs.dev_frees = 0) =>
               /\ SameCurrent(StatNames \ {"reserved_bytes", "segment"}, st, stats)
               /\ \A t \in StatTypeSet :
                    \A k \in {IF StatTypesOf(get_pool(r.info.size))[t] THEN 1 ELSE 0} :
                      /\ st["segment"][t].current = stats["segment"][t].current + k
                      /\ st["reserved_bytes"][t].current =
                           stats["reserved_bytes"][t].current
                             + k * get_allocation_size(r.info.size)
          /\ \A m \in StatNames : \A t \in StatTypeSet :
               st[m][t].peak >= stats[m][t].peak

\* a block is active and a malloc is served by splitting a cached block: the
\* free that follows merges the block back and every current value returns
C18_Witness ==
  /\ active_blocks # {}
  /\ NoEventDue
  /\ \E n \in Sizes, s \in Streams :
       \E r \in {malloc(Cur, n, s, TRUE)} :
         /\ r.block # NULL
         /\ r.info.cached
         /\ r.info.split
         /\ CurrentOf(free(r.a, r.block).stats) = CurrentOf(stats)

\* the allocator after free of the allocated block e
AfterFree(e) == [free(Cur, e[2]) EXCEPT !.obs = NoObs]

\* the malloc that follows the free of e, with the size and the stream e was
\* obtained with
Reuse(e, u) == malloc(AfterFree(e), e[3], blocks[e[2]].stream, u)

\* the bytes of the block e lie in a free block of its pool, on its stream,
\* with no event pending
Reusable(a, e) ==
  \E x \in PoolOf(a, blocks[e[2]].is_small) :
    /\ a.blocks[x].stream = blocks[e[2]].stream
    /\ ~a.blocks[x].allocated
    /\ a.blocks[x].event_count = 0
    /\ a.blocks[x].ptr <= e[1]
    /\ e[1] + blocks[e[2]].size <= a.blocks[x].ptr + a.blocks[x].size

\* the block e has no free predecessor to merge into, and its pool holds no
\* free block of its stream other than its successor
NoRival(e) ==
  /\ ~Mergeable(Cur, blocks[e[2]].prev)
  /\ \A x \in PoolOf(Cur, blocks[e[2]].is_small) :
       blocks[x].stream = blocks[e[2]].stream => x = blocks[e[2]].next

\* C17 as stated (immediate reuse, L3): in every state, for every allocated
\* block obtained by malloc(n, s) whose stream_uses is empty, the malloc(n, s)
\* that follows its free returns the same ptr.
C17_SamePtr ==
  \A e \in allocated_blocks, u \in BOOLEAN :
    blocks[e[2]].stream_uses = {} =>
      \A r \in {Reuse(e, u)} : r.block # NULL /\ r.a.blocks[r.block].ptr = e[1]

\* C17 (immediate reuse, L3), as the code has it: for every allocated block
\* obtained by malloc(n, s) whose stream_uses is empty, free puts its bytes at
\* once into a free block of the pool on stream s, and the malloc(n, s) that
\* follows is served from the cache without a driver allocation; it returns the
\* same ptr when the block has no free predecessor, the pool holds no other
\* free block of stream s than the block's successor, and no pending event has
\* completed.
C17_ImmediateReuse ==
  \A e \in allocated_blocks, u \in BOOLEAN :
    blocks[e[2]].stream_uses = {} =>
      /\ Reusable(AfterFree(e), e)
      /\ \A r \in {Reuse(e, u)} :
           /\ r.block # NULL
           /\ r.info.cached
           /\ r.a.obs.dev_allocs = 0
           /\ r.a.blocks[r.block].stream = blocks[e[2]].stream
           /\ (NoRival(e) /\ NoEventDue) => r.a.blocks[r.block].ptr = e[1]

\* an allocated block with no recorded stream and a free successor, in a pool
\* with no rival: its free merges it with the successor and the next malloc
\* splits the same bytes off again
C17_Witness ==
  \E e \in allocated_blocks :
    /\ blocks[e[2]].stream_uses = {}
    /\ Mergeable(Cur, blocks[e[2]].next)
    /\ NoRival(e)
    /\ NoEventDue
    /\ \E r \in {Reuse(e, TRUE)} :
         r.block # NULL /\ r.info.split /\ r.a.blocks[r.block].ptr = e[1]

\* the free blocks of the large pool on stream s whose size is at least Q and
\* below Q + 20 MiB
WithinLimit(a, Q, s) ==
  {x \in a.large_blocks :
     /\ a.blocks[x].stream = s
     /\ a.blocks[x].size >= Q
     /\ a.blocks[x].size < Q + kLargeBuffer}

\* the same with Q + 20 MiB included
WithinLimitInclusive(a, Q, s) ==
  {x \in a.large_blocks :
     /\ a.blocks[x].stream = s
     /\ a.blocks[x].size >= Q
     /\ a.blocks[x].size <= Q + kLargeBuffer}

\* malloc of an oversize request: a block of `fit` is returned whole from the
\* cache when there is one; otherwise nothing is taken from the cache and the
\* block returned, if any, is a new segment of round_up(Q, 2 MiB) bytes
OversizeServed(a0, fit, Q, r) ==
  IF fit # {}
  THEN /\ r.block \in fit
       /\ \A x \in fit : a0.blocks[r.block].size <= a0.blocks[x].size
       /\ r.info.cached
       /\ ~r.info.split
       /\ r.a.obs.dev_allocs = 0
       /\ r.a.blocks[r.block].size = a0.blocks[r.block].size
       /\ r.a.blocks[r.block].ptr = a0.blocks[r.block].ptr
  ELSE /\ ~r.info.cached
       /\ r.block # NULL =>
            /\ r.a.obs.dev_allocs >= 1
            /\ ~r.info.split
            /\ r.a.blocks[r.block].size = kRoundLarge * ((Q + kRoundLarge - 1) \div kRoundLarge)
            /\ [ptr |-> r.a.blocks[r.block].ptr, size |-> r.a.blocks[r.block].size]
                 \in r.a.hbm

\* C20 as stated (oversize request, B4): for a request of size Q >=
\* max_split_size, a free block of the large pool on the caller's stream whose
\* size lies in [Q, Q + 20 MiB], both bounds included, is returned whole;
\* otherwise malloc obtains a new segment of round_up(Q, 2 MiB) bytes.
C20_InclusiveLimit ==
  \A n \in OversizeRequests, s \in Streams, u \in BOOLEAN :
    \A Q \in {round_size(n)} :
      Q >= m_max_split_size =>
        \A a0 \in {process_events(Cur)} :
          OversizeServed(a0, WithinLimitInclusive(a0, Q, s), Q, malloc(Cur, n, s, u))

\* C20 (oversize request, B4), as the code has it: for a request of size Q >=
\* max_split_size, if the large pool holds a free block on the caller's stream
\* whose size is at least Q and less than Q + 20 MiB, malloc returns the
\* smallest such block whole, without splitting and without a driver call; a
\* block of exactly Q + 20 MiB is refused like any larger one.  Otherwise
\* malloc takes nothing from the cache and the block it returns is a new
\* segment of round_up(Q, 2 MiB) bytes from the driver.
C20_OversizeRequest ==
  \A n \in OversizeRequests, s \in Streams, u \in BOOLEAN :
    \A Q \in {round_size(n)} :
      Q >= m_max_split_size =>
        \A a0 \in {process_events(Cur)} :
          OversizeServed(a0, WithinLimit(a0, Q, s), Q, malloc(Cur, n, s, u))

\* the large pool holds a free block of 42 MiB on stream 1: a request of 22 MiB
\* on that stream refuses it (42 = 22 + 20) and gets a new segment of 22 MiB,
\* a request of 40 MiB gets the 42 MiB block whole
C20_Witness ==
  /\ \E x \in large_blocks :
       blocks[x].stream = 1 /\ blocks[x].size = 22 * MiB + kLargeBuffer
  /\ \E r \in {malloc(Cur, 22 * MiB - kHeader, 1, TRUE)} :
       /\ r.a.obs.reject = "too_large"
       /\ r.block # NULL
       /\ r.a.blocks[r.block].size = 22 * MiB
       /\ r.a.obs.dev_allocs = 1
  /\ \E r \in {malloc(Cur, 40 * MiB - kHeader, 1, TRUE)} :
       /\ r.info.cached
       /\ r.a.blocks[r.block].size = 42 * MiB

\* the block b was freed with recorded streams and every event recorded for it
\* has completed
EventsDone(b) ==
  /\ blocks[b].event_count > 0
  /\ \A s \in Streams : \A i \in 1 .. Len(npu_events[s]) :
       npu_events[s][i].block = b => npu_events[s][i].done

\* the free blocks of b's pool in `a` that hold the first byte of b, on b's
\* stream and with no event pending
Holding(a, b) ==
  {x \in PoolOf(a, blocks[b].is_small) :
     /\ a.blocks[x].stream = blocks[b].stream
     /\ ~a.blocks[x].allocated
     /\ a.blocks[x].event_count = 0
     /\ a.blocks[x].ptr <= blocks[b].ptr
     /\ blocks[b].ptr + blocks[b].size <= a.blocks[x].ptr + a.blocks[x].size}

\* the malloc of b's size on b's allocation stream
SameSizeMalloc(b, u) == malloc(Cur, blocks[b].size - kHeader, blocks[b].stream, u)

\* a free block, or a block about to be freed by process_events, of b's stream
\* and pool that is not larger than b
SmallerOrEqualRival(b) ==
  \E y \in DOMAIN blocks \ {b} :
    /\ y \in PoolOf(Cur, blocks[b].is_small) \/ EventsDone(y)
    /\ blocks[y].is_small = blocks[b].is_small
    /\ blocks[y].stream = blocks[b].stream
    /\ blocks[y].size <= blocks[b].size

\* C21 as stated (deferred block becomes reusable): once every event recorded
\* for a deferred-free block has completed, the next malloc returns the block
\* to its free pool, and a malloc of the same size on the block's allocation
\* stream, with no smaller-or-equal competing free block, returns that block's
\* ptr.
C21_ReturnsPtr ==
  \A b \in DOMAIN blocks, u \in BOOLEAN :
    (EventsDone(b) /\ ~SmallerOrEqualRival(b)) =>
      /\ Holding(process_events(Cur), b) # {}
      /\ \A r \in {SameSizeMalloc(b, u)} :
           r.block # NULL /\ r.a.blocks[r.block].ptr = blocks[b].ptr

\* C21 (deferred block becomes reusable), as the code has it: once every event
\* recorded for a deferred-free block has completed, the process_events at the
\* head of the next malloc puts the block's bytes into a free block of its pool
\* on its allocation stream, and a malloc of the same size on that stream is
\* served from the cache; it returns the block's ptr when the block was not
\* merged into a free predecessor and no other free block of the stream that
\* fits is at most as large as the free block that now holds it.
C21_DeferredReusable ==
  \A b \in DOMAIN blocks, u \in BOOLEAN :
    EventsDone(b) =>
      \A a0 \in {process_events(Cur)} :
        /\ Holding(a0, b) # {}
        /\ \A r \in {SameSizeMalloc(b, u)} :
             /\ r.block # NULL
             /\ r.info.cached
             /\ r.a.obs.dev_allocs = 0
             /\ \A x \in Holding(a0, b) :
                  (/\ a0.blocks[x].ptr = blocks[b].ptr
                   /\ \A y \in PoolOf(a0, blocks[b].is_small) \ {x} :
                        \/ a0.blocks[y].stream # blocks[b].stream
                        \/ a0.blocks[y].size < blocks[b].size
                        \/ a0.blocks[y].size > a0.blocks[x].size)
                    => r.a.blocks[r.block].ptr = blocks[b].ptr

\* a block freed with a recorded stream whose event has completed, behind an
\* allocated predecessor: the next malloc of its size on its stream returns
\* its ptr from the cache
C21_Witness ==
  \E b \in DOMAIN blocks :
    /\ EventsDone(b)
    /\ blocks[b].prev # NULL
    /\ blocks[blocks[b].prev].allocated
    /\ \E r \in {SameSizeMalloc(b, TRUE)} :
         r.block # NULL /\ r.info.cached /\ r.a.blocks[r.block].ptr = blocks[b].ptr

\* an allocator that holds no block and no device memory
Fresh == DOMAIN blocks = {} /\ hbm = {} /\ ~set_fraction

\* p = malloc(4 MiB, s0); free(p): the allocator after the free, and whether the
\* malloc succeeded
FirstRoundTrip(u) ==
  Only({ [ok |-> r.block # NULL,
          a |-> IF r.block = NULL THEN r.a
                ELSE [free(r.a, r.block) EXCEPT !.obs = NoObs]]
         : r \in {malloc(Cur, 4 * MiB, 1, u)} })

\* C22 as stated (OOM recovery): on a fresh allocator with the default
\* configuration and a driver that has 8 MiB free, p = malloc(4 MiB, s0);
\* free(p); malloc(6 MiB, s0) succeeds at each malloc.
C22_SucceedsOn8MiB ==
  \A u \in BOOLEAN :
    (Fresh /\ device_total = 8 * MiB) =>
      \A t \in {FirstRoundTrip(u)} :
        t.ok /\ malloc(t.a, 6 * MiB, 1, u).block # NULL

\* C22 (OOM recovery), as the code has it: a request below 10 MiB in the large
\* pool takes a 20 MiB segment, so on a fresh allocator with 8 MiB free
\* malloc(4 MiB, s0) fails with out of memory and leaves the driver untouched.
\* With 24 MiB free, p = malloc(4 MiB, s0); free(p) leaves a cached 20 MiB
\* segment; malloc(6 MiB, s0) is then served from it without a driver call, and
\* malloc(6 MiB, s1), which may not use it, succeeds after the cached segment
\* has been returned to the driver and the allocation retried.  In every state
\* a malloc that fails leaves no whole free segment cached.
C22_OOMRecovery ==
  \A u \in BOOLEAN :
    /\ (Fresh /\ device_total = 8 * MiB) =>
         \A r \in {malloc(Cur, 4 * MiB, 1, u)} :
           /\ r.block = NULL
           /\ r.a.hbm = {}
           /\ r.a.stats.num_ooms = stats.num_ooms + 1
    /\ (Fresh /\ device_total = 24 * MiB) =>
         \A t \in {FirstRoundTrip(u)} :
           /\ t.ok
           /\ \E seg \in t.a.hbm : seg.size = kLargeBuffer /\ t.a.hbm = {seg}
           /\ \A r \in {malloc(t.a, 6 * MiB, 1, u)} :
                r.block # NULL /\ r.info.cached /\ r.a.obs.dev_allocs = 0
           /\ \A r \in {malloc(t.a, 6 * MiB, 2, u)} :
                /\ r.block # NULL
                /\ ~r.info.cached
                /\ r.a.obs.dev_frees = 1
                /\ r.a.obs.freed_bytes = kLargeBuffer
                /\ r.a.obs.dev_allocs = 1
                /\ r.a.stats.num_alloc_retries = t.a.stats.num_alloc_retries + 1
                /\ \E seg \in r.a.hbm : seg.size = kLargeBuffer /\ r.a.hbm = {seg}
    /\ \A n \in RecoverySizes, s \in Streams :
         \A r \in {malloc(Cur, n, s, u)} :
           r.block = NULL =>
             \A x \in r.a.large_blocks \cup r.a.small_blocks : ~Releasable(r.a.blocks[x])

\* on the device of 24 MiB the second malloc of a behaviour has succeeded after
\* one segment was returned to the driver and the allocation retried
C22_Witness ==
  /\ device_total = 24 * MiB
  /\ ncalls = 2
  /\ last.op = "malloc"
  /\ last.block # NULL
  /\ last.obs.dev_frees = 1
  /\ last.obs.dev_allocs = 1
  /\ stats.num_alloc_retries = 1
  /\ stats.num_ooms = 0

\* threshold x fraction cap, and the unsplit blocks of the large pool
GcLimit(a) ==
  (m_garbage_collection_threshold[1] * a.allowed_memory_maximum)
    \div m_garbage_collection_threshold[2]
UnsplitFree(a) == {b \in a.large_blocks : ~is_split(a.blocks[b])}
UnsplitFreeBytes(a) ==
  SumSeq([b \in UnsplitFree(a) |-> a.blocks[b].size], PoolSeq(a, UnsplitFree(a)))

\* the search of malloc(n, s) for a cached block: [a, p, ret]
CacheSearch(n, s) ==
  get_free_block(process_events([Cur EXCEPT !.obs = NoObs]), AllocParams(round_size(n), s))

\* C23 (fragmentation GC reclaim): with a memory fraction set and
\* garbage_collection_threshold > 0, when malloc finds no cached block and the
\* bytes reserved exceed threshold x cap while the unsplit blocks of the large
\* pool total at least (reserved - threshold x cap), the garbage collection alone
\* returns at least that many bytes to the driver and allocates nothing, and the
\* malloc has returned at least that many bytes; the collection comes before
\* the driver call: when the new segment fits under the cap only after it, the
\* malloc succeeds without a retry.
C23_GcReclaims ==
  \A n \in GcSizes, s \in Streams, u \in BOOLEAN :
    GcEnabled(Cur) =>
      \A g \in {CacheSearch(n, s)} :
        (/\ ~g.ret
         /\ g.a.total_allocated_memory > GcLimit(g.a)
         /\ UnsplitFreeBytes(g.a) >= g.a.total_allocated_memory - GcLimit(g.a)) =>
          \A gc \in {garbage_collect_cached_blocks(g.a, u)},
             r \in {malloc(Cur, n, s, u)} :
            /\ g.a.total_allocated_memory - gc.total_allocated_memory
                 >= g.a.total_allocated_memory - GcLimit(g.a)
            /\ gc.obs.freed_bytes
                 = g.a.total_allocated_memory - gc.total_allocated_memory
            /\ gc.obs.dev_allocs = 0
            /\ gc.hbm \subseteq g.a.hbm
            /\ r.a.obs.freed_bytes >= g.a.total_allocated_memory - GcLimit(g.a)
            /\ (gc.total_allocated_memory + g.p.alloc_size <= gc.allowed_memory_maximum) =>
                 /\ r.block # NULL
                 /\ r.a.stats.num_alloc_retries = stats.num_alloc_retries
                 /\ r.a.obs.freed_bytes = gc.obs.freed_bytes
                 /\ r.a.obs.dev_allocs = 1

\* a malloc has found no cached block, returned a cached segment to the driver
\* without a retry and taken a new segment
C23_Witness ==
  /\ GcEnabled(Cur)
  /\ last.op = "malloc"
  /\ last.block # NULL
  /\ ~last.info.cached
  /\ last.obs.dev_frees >= 1
  /\ last.obs.freed_bytes >= kLargeBuffer
  /\ last.obs.dev_allocs = 1
  /\ stats.num_alloc_retries = 0

\* the garbage collection that malloc(n, s) would run after its search
GcOf(n, s, u) ==
  Only({ [before |-> g.a, after |-> garbage_collect_cached_blocks(g.a, u)]
         : g \in {CacheSearch(n, s)} })

C25_MutexHeld ==
  \A t \in Threads : thread_pc[t] # "idle" => mutex = t

\* the pointer is the address of a currently allocated block
Issued(ptr) == \E e \in allocated_blocks : e[1] = ptr

\* C26 (invalid device pointer): raw_delete, getBaseAllocation and eraseStream
\* called with a non-null pointer that is not the address of a currently
\* allocated block report "invalid device pointer" and leave the allocator and
\* the map of allocated blocks as they were; raw_delete of a null pointer does
\* nothing and reports no error; with the address of an allocated block none of
\* the three reports an error.
C26_InvalidPointer ==
  \A ptr \in Pointers, s \in Streams :
    \A f \in {raw_delete(Cur, allocated_blocks, ptr)},
       g \in {getBaseAllocationOf(Cur, allocated_blocks, ptr)},
       e \in {eraseStreamOf(Cur, allocated_blocks, ptr, s)} :
      /\ ptr = NULL =>
           f.err = "none" /\ f.a = Cur /\ f.allocated_blocks = allocated_blocks
      /\ (ptr # NULL /\ ~Issued(ptr)) =>
           /\ f.err = "invalid device pointer"
           /\ f.a = Cur
           /\ f.allocated_blocks = allocated_blocks
           /\ g.err = "invalid device pointer"
           /\ e.err = "invalid device pointer"
           /\ e.a = Cur
      /\ Issued(ptr) => f.err = "none" /\ g.err = "none" /\ e.err = "none"

\* raw_delete has just refused the address of a block that was freed before and
\* is cached
C26_Witness ==
  /\ last.op = "invalid device pointer"
  /\ last.ptr # NULL
  /\ ~Issued(last.ptr)
  /\ \E b \in large_blocks \cup small_blocks : blocks[b].ptr = last.ptr

\* m is the smallest multiple of unit that is >= x
SmallestMultiple(m, unit, x) == m % unit = 0 /\ m >= x /\ m - unit < x

\* C27 (size rounding and pool selection): for a request of n > 0 bytes the
\* rounded size is the smallest multiple of 512 that is >= n + 32; the pool is
\* the small one iff the rounded size is <= 1 MiB; a new segment has 2 MiB
\* (small pool), 20 MiB (rounded size < 10 MiB) or the rounded size rounded up
\* to a multiple of 2 MiB.  A malloc that succeeds returns a block of the pool
\* chosen, of at least the rounded size, and a segment it takes from the driver
\* has the size computed; malloc(1) returns a small-pool block of 512 bytes,
\* malloc(1 MiB + 1) a large-pool block in a segment of at least 2 MiB.
C27_Rounding ==
  /\ \A n \in RoundingInputs :
       \A r \in {round_size(n)} :
         /\ SmallestMultiple(r, kMinBlockSize, n + kHeader)
         /\ get_pool(r) <=> r <= MiB
         /\ get_allocation_size(r) =
              IF r <= MiB THEN 2 * MiB
              ELSE IF r < 10 * MiB THEN 20 * MiB
              ELSE kRoundLarge * ((r + kRoundLarge - 1) \div kRoundLarge)
         /\ r >= 10 * MiB => SmallestMultiple(get_allocation_size(r), 2 * MiB, r)
  /\ \A n \in RoundingSizes, s \in Streams, u \in BOOLEAN :
       \A r \in {malloc(Cur, n, s, u)} :
         r.block # NULL =>
           \A b \in {r.a.blocks[r.block]} :
             /\ b.size >= round_size(n)
             /\ b.is_small <=> round_size(n) <= MiB
             /\ r.a.obs.dev_allocs > 0 =>
                  \E seg \in r.a.hbm :
                    /\ seg.size = get_allocation_size(round_size(n))
                    /\ seg.ptr <= b.ptr
                    /\ b.ptr + b.size <= seg.ptr + seg.size
             /\ n = 1 => b.size = kMinBlockSize /\ b.is_small
             /\ n = MiB + 1 =>
                  /\ ~b.is_small
                  /\ getBaseAllocation(r.a.blocks, r.block)[2] >= 2 * MiB

\* a block of 512 bytes of the small pool is allocated for a request of 1 byte
\* and malloc(1 MiB + 1) has just returned a block of the large pool
C27_Witness ==
  /\ \E e \in allocated_blocks :
       e[3] = 1 /\ blocks[e[2]].size = kMinBlockSize /\ blocks[e[2]].is_small
  /\ last.op = "malloc"
  /\ last.info.size = MiB + kMinBlockSize
  /\ last.block # NULL
  /\ ~blocks[last.block].is_small
  /\ blocks[last.block].allocated

\* the block lies in a segment the driver has handed out
InSegment(a, b) ==
  \E seg \in a.hbm :
    seg.ptr <= a.blocks[b].ptr /\ a.blocks[b].ptr + a.blocks[b].size <= seg.ptr + seg.size

\* the memory of block b of the current heap is in a segment held in a
StillHeld(a, b) ==
  \E seg \in a.hbm :
    seg.ptr <= blocks[b].ptr /\ blocks[b].ptr + blocks[b].size <= seg.ptr + seg.size

\* the block is a whole segment, in a free pool, not allocated, no event pending
WhollyFree(a, b) ==
  /\ b \in a.large_blocks \cup a.small_blocks
  /\ a.blocks[b].prev = NULL
  /\ a.blocks[b].next = NULL
  /\ ~a.blocks[b].allocated
  /\ a.blocks[b].event_count = 0
  /\ \E seg \in a.hbm : seg.ptr = a.blocks[b].ptr /\ seg.size = a.blocks[b].size

\* the blocks that a release step deleted were whole free segments, and the
\* blocks it left are in segments still held
ReleasedWhollyFree(before, after) ==
  /\ \A b \in DOMAIN before.blocks \ DOMAIN after.blocks : WhollyFree(before, b)
  /\ \A b \in DOMAIN after.blocks : InSegment(after, b)

\* the allocator as release_cached_blocks has it when it starts to release
AfterSync == npuSynchronizeDevice(synchronize_and_free_events(Cur))

\* C28 (segments are released only when wholly free): every block of the heap
\* lies in a segment the driver has handed out; and each release path
\* (release_blocks of empty_cache and of the last retry, on both pools;
\* release_available_cached_blocks; the garbage collection) returns to the
\* driver only blocks that are in a free pool, have no prev and no next, are not
\* allocated and have no pending event, and leaves every other block in a held
\* segment; the memory of an allocated block is still held after malloc and
\* emptyCache.
C28_ReleasedWhollyFree ==
  /\ \A b \in DOMAIN blocks : InSegment(Cur, b)
  /\ \A u \in BOOLEAN :
       /\ \A small \in BOOLEAN :
            ReleasedWhollyFree(AfterSync, release_blocks(AfterSync, small, u))
       /\ GcEnabled(Cur) =>
            ReleasedWhollyFree(Cur, garbage_collect_cached_blocks(Cur, u))
       /\ \A n \in ReleaseSizes, s \in Streams :
            /\ ReleasedWhollyFree(Cur,
                 release_available_cached_blocks(Cur, AllocParams(round_size(n), s), u).a)
            /\ \A r \in {malloc(Cur, n, s, u)} :
                 \A b \in DOMAIN blocks : blocks[b].allocated => StillHeld(r.a, b)
       /\ \A r \in {emptyCache(Cur, u)} :
            \A b \in DOMAIN blocks : blocks[b].allocated => StillHeld(r, b)

\* a call has returned a segment to the driver and left a free block cached
\* whose segment holds an allocated block
C28_Witness ==
  /\ last.op \in {"malloc", "empty_cache"}
  /\ last.obs.dev_frees >= 1
  /\ \E b \in large_blocks \cup small_blocks :
       /\ is_split(blocks[b])
       /\ \E c \in active_blocks : blocks[c].next = b \/ blocks[c].prev = b

\* the number of entries of the pending deques of a that reference block b
EventEntries(a, b) ==
  Cardinality(UNION { { <<s, i>> : i \in {j \in 1 .. Len(a.npu_events[s]) :
                                            a.npu_events[s][j].block = b} }
                      : s \in Streams })

\* C29 (event_count bookkeeping): for every block event_count is the number of
\* entries of the pending deques that reference it, and is never negative; every
\* entry references a block of the heap; and free of an allocated block with k
\* recorded streams, the allocator not shut down, appends exactly one event to
\* the deque of each of the k streams and to no other, sets event_count to k and
\* leaves stream_uses empty.
C29_EventCount ==
  /\ \A b \in DOMAIN blocks :
       blocks[b].event_count = EventEntries(Cur, b) /\ blocks[b].event_count >= 0
  /\ \A s \in Streams : \A i \in 1 .. Len(npu_events[s]) :
       npu_events[s][i].block \in DOMAIN blocks
  /\ \A e \in allocated_blocks :
       ~shutdown_stats =>
         \A a \in {free(Cur, e[2])}, uses \in {blocks[e[2]].stream_uses} :
           /\ a.blocks[e[2]].event_count = Cardinality(uses)
           /\ a.blocks[e[2]].stream_uses = {}
           /\ \A s \in Streams :
                a.npu_events[s] =
                  IF s \in uses
                  THEN Append(npu_events[s], [block |-> e[2], done |-> FALSE])
                  ELSE npu_events[s]

\* free has just deferred a block that two streams had been recorded on: one
\* event waits in the deque of each
C29_Witness ==
  /\ last.op = "free"
  /\ last.block \in DOMAIN blocks
  /\ blocks[last.block].event_count = 2
  /\ blocks[last.block].stream_uses = {}
  /\ \A s \in Streams :
       /\ npu_events[s] # <<>>
       /\ npu_events[s][Len(npu_events[s])] = [block |-> last.block, done |-> FALSE]

\* the number of complete events at the front of a deque
RECURSIVE LeadingDone(_)
LeadingDone(dq) ==
  IF dq = <<>> \/ ~Head(dq).done THEN 0 ELSE 1 + LeadingDone(Tail(dq))

\* C30 (process_events is FIFO per stream): process_events removes from each
\* stream's deque exactly the complete events at its front, whatever the other
\* deques hold, and leaves the first incomplete event and everything behind it;
\* a block that had events pending is back in a free pool (or merged into a
\* block of one) exactly when none of its events is left in a deque, and is
\* otherwise out of the pools with event_count the number of events left.
C30_FifoPerStream ==
  \A a \in {process_events(Cur)} :
    /\ \A s \in Streams :
         \A k \in {LeadingDone(npu_events[s])} :
           /\ a.npu_events[s] = SubSeq(npu_events[s], k + 1, Len(npu_events[s]))
           /\ a.npu_events[s] # <<>> => ~Head(a.npu_events[s]).done
    /\ \A b \in DOMAIN blocks :
         blocks[b].event_count > 0 =>
           IF EventEntries(a, b) = 0
           THEN \/ b \notin DOMAIN a.blocks
                \/ /\ b \in a.large_blocks \cup a.small_blocks
                   /\ a.blocks[b].event_count = 0
           ELSE /\ b \in DOMAIN a.blocks
                /\ b \notin a.large_blocks \cup a.small_blocks
                /\ a.blocks[b].event_count = EventEntries(a, b)

\* two blocks wait for events, the first on both streams and the second on one;
\* on one stream both events are complete and on the other the event of the
\* first block is not: process_events returns the second block only
C30_Witness ==
  \E s, t \in Streams :
    /\ s # t
    /\ Len(npu_events[s]) = 2
    /\ LeadingDone(npu_events[s]) = 2
    /\ Len(npu_events[t]) = 1
    /\ ~npu_events[t][1].done
    /\ npu_events[t][1].block = npu_events[s][1].block
    /\ npu_events[s][2].block # npu_events[s][1].block
    /\ \A a \in {process_events(Cur)} :
         /\ a.npu_events[s] = <<>>
         /\ a.npu_events[t] = npu_events[t]
         /\ a.blocks[npu_events[t][1].block].event_count = 1
         /\ npu_events[s][2].block \in a.small_blocks

\* the deque without the entries that reference block b
RECURSIVE WithoutBlock(_, _)
WithoutBlock(dq, b) ==
  IF dq = <<>> THEN <<>>
  ELSE IF Head(dq).block = b THEN WithoutBlock(Tail(dq), b)
  ELSE <<Head(dq)>> \o WithoutBlock(Tail(dq), b)

\* C31 (erase_stream cancels a recorded use): eraseStream(block, S), for a
\* block that is allocated or waits for events, removes S from stream_uses and
\* every entry of that block from S's deque, leaves the other deques alone and
\* lowers event_count by the number of entries removed; the block is in a free
\* pool afterwards exactly when an entry was removed and event_count reached
\* zero, and then the block is not allocated; no assertion fails.  For an
\* allocated block with no recorded stream, recordStream(S); eraseStream(S);
\* free puts the block in its pool at once and records no event.
C31_EraseStream ==
  \A b \in DOMAIN blocks, s \in Streams :
    (blocks[b].allocated \/ blocks[b].event_count > 0) =>
      /\ \A a \in {eraseStream(Cur, b, s)},
            removed \in {Len(npu_events[s]) - Len(WithoutBlock(npu_events[s], b))} :
           /\ a.assert_ok = assert_ok
           /\ b \in DOMAIN a.blocks
           /\ a.blocks[b].stream_uses = blocks[b].stream_uses \ {s}
           /\ a.npu_events[s] = WithoutBlock(npu_events[s], b)
           /\ \A t \in Streams \ {s} : a.npu_events[t] = npu_events[t]
           /\ a.blocks[b].event_count = blocks[b].event_count - removed
           /\ b \in a.large_blocks \cup a.small_blocks
                <=> (removed > 0 /\ a.blocks[b].event_count = 0)
           /\ b \in a.large_blocks \cup a.small_blocks => ~a.blocks[b].allocated
           /\ blocks[b].allocated =>
                /\ removed = 0
                /\ a = [Cur EXCEPT !.blocks[b].stream_uses = @ \ {s}]
      /\ (blocks[b].allocated /\ blocks[b].stream_uses = {} /\ ~shutdown_stats) =>
           \A a \in {free(eraseStream(recordStream(Cur, b, s), b, s), b)} :
             /\ b \in a.large_blocks \cup a.small_blocks
             /\ a.blocks[b].event_count = 0
             /\ a.npu_events = npu_events

\* a freed block waits for one event, on a stream whose deque also holds the
\* event of another block: eraseStream of that stream returns the block to
\* its pool and leaves the other event
C31_Witness ==
  \E b \in DOMAIN blocks, s \in Streams :
    /\ blocks[b].event_count = 1
    /\ ~blocks[b].allocated
    /\ Len(npu_events[s]) = 2
    /\ \E i \in 1 .. 2 : npu_events[s][i].block = b
    /\ \A a \in {eraseStream(Cur, b, s)} :
         /\ b \in a.large_blocks \cup a.small_blocks
         /\ Len(a.npu_events[s]) = 1

\* C32 (cache first): a malloc whose search of the request's pool accepts a
\* cached block calls neither the driver's allocation nor its free, leaves the
\* set of segments, the reserved bytes and the segment counts as they were and
\* returns a cached block; a malloc that calls the driver's allocation is one
\* whose search of the pool had found no acceptable block.
C32_CacheFirst ==
  \A n \in GcSizes, s \in Streams, u \in BOOLEAN :
    \A g \in {CacheSearch(n, s)}, r \in {malloc(Cur, n, s, u)} :
      /\ g.ret =>
           /\ r.block # NULL
           /\ r.info.cached
           /\ r.a.obs.dev_allocs = 0
           /\ r.a.obs.dev_frees = 0
           /\ r.a.obs.syncs = 0
           /\ r.a.hbm = hbm
           /\ r.a.total_allocated_memory = total_allocated_memory
           /\ r.a.stats["reserved_bytes"] = stats["reserved_bytes"]
           /\ r.a.stats["segment"] = stats["segment"]
           /\ r.a.stats.num_alloc_retries = stats.num_alloc_retries
      /\ r.a.obs.dev_allocs > 0 => ~g.ret
      /\ r.info.cached <=> g.ret

\* a malloc has been served from the cache while garbage collection is on and
\* the reserved memory is above the collection threshold
C32_Witness ==
  /\ last.op = "malloc"
  /\ last.block # NULL
  /\ last.info.cached
  /\ last.obs.dev_allocs = 0
  /\ last.obs.dev_frees = 0
  /\ GcEnabled(Cur)
  /\ total_allocated_memory > GcLimit(Cur)

\* blocks b and c of heap a lie in the same segment
SameSegment(a, b, c) == ChainHead(a.blocks, b) = ChainHead(a.blocks, c)

\* C33 (empty_cache postcondition): after emptyCache no stream deque holds an
\* event and no block waits for one; every block that is not allocated is in
\* the pool of its size class and has no free neighbour (it was merged with its
\* free siblings); neither pool holds an unsplit block; every free block still
\* cached lies in a segment that also holds an allocated block.
C33_EmptyCachePost ==
  \A u \in BOOLEAN :
    \A a \in {emptyCache(Cur, u)} :
      /\ a.assert_ok = assert_ok
      /\ \A s \in Streams : a.npu_events[s] = <<>>
      /\ \A b \in DOMAIN a.blocks :
           /\ a.blocks[b].event_count = 0
           /\ a.blocks[b].allocated <=> (b \in DOMAIN blocks /\ blocks[b].allocated)
           /\ ~a.blocks[b].allocated =>
                /\ b \in PoolOf(a, a.blocks[b].is_small)
                /\ is_split(a.blocks[b])
                /\ \A c \in {a.blocks[b].prev, a.blocks[b].next} \ {NULL} :
                     a.blocks[c].allocated
                /\ \E c \in DOMAIN a.blocks :
                     a.blocks[c].allocated /\ SameSegment(a, b, c)
      /\ a.large_blocks \cup a.small_blocks
           = {b \in DOMAIN a.blocks : ~a.blocks[b].allocated}

\* a block waits for an event while another segment holds an allocated block
\* and a cached remainder: emptyCache frees the waiting block, returns its
\* segment to the driver and keeps the remainder cached
C33_Witness ==
  /\ \E b \in DOMAIN blocks : blocks[b].event_count > 0
  /\ \E s \in Streams : npu_events[s] # <<>>
  /\ \A a \in {emptyCache(Cur, TRUE)} :
       /\ a.obs.dev_frees >= 1
       /\ a.large_blocks \cup a.small_blocks # {}
       /\ a.hbm # {}
       /\ a.hbm # hbm

\* malloc(n, s) reaches release_available_cached_blocks: the pool search and
\* the first alloc_block have both failed
ReachesRelease(n, s) ==
  \A g \in {CacheSearch(n, s)} : ~g.ret /\ ~alloc_block(g.a, g.p, FALSE).ret

\* the call of release_available_cached_blocks that malloc(n, s) makes
ReleaseAvailable(n, s, u) ==
  release_available_cached_blocks(CacheSearch(n, s).a, AllocParams(round_size(n), s), u)

\* C34 (release_available_cached_blocks result, as stated): the call returns
\* false exactly when it released no block to the driver.
C34_FalseIffNothingReleased ==
  \A n \in OversizeRequests, s \in Streams, u \in BOOLEAN :
    ReachesRelease(n, s) =>
      \A r \in {ReleaseAvailable(n, s, u)} :
        ~r.ret <=> r.a.obs.dev_frees = 0

\* C34 (release_available_cached_blocks result, as the code has it): the call
\* returns true exactly when the bytes it released reach the larger of the
\* request size and max_split_size, and then it released at least one block;
\* a call that released nothing returns false, and a call that returns false
\* may have released blocks; with max_split_size unconfigured it changes
\* nothing and returns false.
C34_ReleaseResult ==
  \A n \in OversizeRequests, s \in Streams, u \in BOOLEAN :
    ReachesRelease(n, s) =>
      \A r \in {ReleaseAvailable(n, s, u)},
         key_size \in {Max(round_size(n), m_max_split_size)} :
        /\ m_max_split_size = SizeMax => (r.a = CacheSearch(n, s).a /\ ~r.ret)
        /\ r.ret <=> r.a.obs.freed_bytes >= key_size
        /\ r.ret => r.a.obs.dev_frees >= 1
        /\ r.a.obs.dev_frees = 0 => ~r.ret
        /\ r.a.obs.dev_frees = Cardinality(hbm \ r.a.hbm)
        /\ r.a.obs.dev_allocs = 0

\* with max_split_size configured, a malloc whose alloc_block has failed finds
\* one cached oversize block on its stream that is smaller than the request:
\* the call releases it and returns false
C34_Witness ==
  /\ m_max_split_size # SizeMax
  /\ \E n \in OversizeRequests, s \in Streams :
       /\ ReachesRelease(n, s)
       /\ \A r \in {ReleaseAvailable(n, s, TRUE)} :
            /\ ~r.ret
            /\ r.a.obs.dev_frees = 1
            /\ r.a.obs.freed_bytes < round_size(n)

\* with max_split_size unconfigured, a malloc whose alloc_block has failed
\* while a block is cached: the call releases nothing
C34_WitnessUnconfigured ==
  /\ m_max_split_size = SizeMax
  /\ large_blocks # {}
  /\ \E n \in OversizeRequests, s \in Streams : ReachesRelease(n, s)

\* the address ranges of the blocks of heap a are pairwise disjoint
DisjointBlocks(a) ==
  \A b, c \in DOMAIN a.blocks :
    b # c => ~Overlaps(a.blocks[b].ptr, a.blocks[b].size, a.blocks[c].ptr, a.blocks[c].size)

\* block b of the current heap is still in the heap that malloc result r
\* leaves, at the same place, and the block returned does not overlap it
KeptApart(r, b) ==
  /\ b \in DOMAIN r.a.blocks
  /\ r.a.blocks[b].ptr = blocks[b].ptr
  /\ r.a.blocks[b].size = blocks[b].size
  /\ r.block # NULL =>
       /\ b # r.block
       /\ ~Overlaps(r.a.blocks[r.block].ptr, r.a.blocks[r.block].size,
                    blocks[b].ptr, blocks[b].size)

\* C40 (disjoint memory): in every state the ranges [ptr, ptr + size) of all
\* blocks of the device (allocated, awaiting events, free in a pool) are
\* pairwise disjoint, each lies in a segment held from the driver and the
\* segments are pairwise disjoint; every pointer handed out is the start of an
\* allocated block at least as large as the request; and a further malloc
\* keeps every block that is allocated, or awaits events before and after the
\* call, where it is and returns a block that overlaps none of them.
C40_DisjointMemory ==
  /\ DisjointBlocks(Cur)
  /\ \A b \in DOMAIN blocks : InSegment(Cur, b)
  /\ \A x, y \in hbm : x # y => ~Overlaps(x.ptr, x.size, y.ptr, y.size)
  /\ \A e \in allocated_blocks :
       /\ e[2] \in DOMAIN blocks
       /\ blocks[e[2]].allocated
       /\ blocks[e[2]].ptr = e[1]
       /\ blocks[e[2]].size >= e[3]
  /\ \A n \in MixedSizes, s \in Streams, u \in BOOLEAN :
       \A r \in {malloc(Cur, n, s, u)} :
         /\ DisjointBlocks(r.a)
         /\ \A b \in DOMAIN blocks : blocks[b].allocated => KeptApart(r, b)
         /\ \A b \in DOMAIN blocks \cap DOMAIN r.a.blocks :
              (blocks[b].event_count > 0 /\ r.a.blocks[b].event_count > 0) =>
                KeptApart(r, b)

\* a malloc has returned a block split from a segment that also holds a block
\* awaiting an event and a free remainder
C40_Witness ==
  /\ last.op = "malloc"
  /\ last.block # NULL
  /\ last.info.split
  /\ \E b, c \in DOMAIN blocks :
       /\ blocks[b].event_count > 0
       /\ c \in small_blocks \cup large_blocks
       /\ SameSegment(Cur, b, last.block)
       /\ SameSegment(Cur, c, last.block)

\* the records 1 .. k in the order they were copied
FirstRecords(k) == [i \in 1 .. k |-> i]

\* between calls of the callbacks every record executed is released; while
\* execute runs on the record of slot read_idx that record alone is not
\* released yet
ExecutedThenReleased ==
  IF consumer_pc = "Call"
  THEN /\ executed = Append(released, datas[read_idx])
       /\ ~IsEmptyQueue
  ELSE executed = released

\* the slots from read_idx up to write_idx hold the records not yet released,
\* in the order they were copied
RingHoldsUnreleased ==
  /\ ncopied - Len(released) \in 0 .. kQueueCapacity - 1
  /\ read_idx = Len(released) % kQueueCapacity
  /\ write_idx = ncopied % kQueueCapacity
  /\ \A j \in 1 .. ncopied - Len(released) :
       datas[(read_idx + j - 1) % kQueueCapacity] = Len(released) + j

\* read_idx moves by one slot, in the step in which the release callback is
\* invoked on the record of that slot, after execute was invoked on it
ReadIndexAfterRelease ==
  read_idx' # read_idx =>
    /\ consumer_pc = "Call"
    /\ read_idx' = NextIdx(read_idx)
    /\ released' = Append(released, datas[read_idx])
    /\ executed[Len(executed)] = datas[read_idx]
    /\ executed' = executed

StatusAdvances ==
  repo_status' # repo_status =>
    \/ /\ repo_status \in {"INIT", "RUN"}
       /\ repo_status' = "NEED_EXIT"
       /\ host_pc = "idle"
       /\ host_pc' = "DestructorWake"
       /\ consumer_pc' = consumer_pc
    \/ /\ repo_status = "NEED_EXIT"
       /\ repo_status' = "CAN_EXIT"
       /\ consumer_pc = "DequeueEmpty"
       /\ consumer_pc' = "DequeueDone"
       /\ host_pc' = host_pc
       /\ executed = released

\* the consumer comes to the status test after a ReadQueue that found the
\* ring empty
EmptyBeforeStatusTest ==
  (consumer_pc' = "DequeueEmpty" /\ consumer_pc # "DequeueEmpty") =>
    (consumer_pc = "DequeueLoop" /\ IsEmptyQueue)

\* C36 (status progression, as stated): the consumer leaves its loop only
\* after every record copied into the ring, all of them enqueued before
\* NEED_EXIT was set, has been executed.
C36_AllExecutedAtExit == consumer_pc = "exited" => Len(executed) = ncopied

\* C36 (status progression, as the code has it): the status changes only from
\* INIT or RUN to NEED_EXIT, by the destructor, and from NEED_EXIT to CAN_EXIT,
\* by the consumer after a ReadQueue that found the ring empty, and never
\* goes back; when the consumer has left its loop the status is CAN_EXIT and
\* every record read_idx has passed was executed and released, while records
\* copied after that ReadQueue may be left in the ring.
C36_StatusProgression ==
  /\ [][StatusAdvances /\ EmptyBeforeStatusTest]_vars
  /\ [](consumer_pc = "exited" =>
          /\ repo_status = "CAN_EXIT"
          /\ executed = released
          /\ executed = FirstRecords(Len(executed))
          /\ read_idx = Len(executed) % kQueueCapacity
          /\ Len(executed) <= ncopied)

\* the consumer has executed records, set CAN_EXIT and left its loop while
\* records enqueued before NEED_EXIT are still in the ring
C36_Witness ==
  /\ consumer_pc = "exited"
  /\ repo_status = "CAN_EXIT"
  /\ Len(executed) > 0
  /\ Len(executed) < ncopied
  /\ ~IsEmptyQueue

\* a step that writes the ring: WriteQueue copies the next record into slot
\* write_idx, which is not the slot before read_idx and holds no record that is
\* still to be released, and moves write_idx by one
WriteGuarded ==
  (datas' # datas \/ write_idx' # write_idx) =>
    /\ host_pc = "WriteQueue"
    /\ NextIdx(write_idx) # read_idx
    /\ \A j \in 1 .. ncopied - Len(released) :
         (read_idx + j - 1) % kQueueCapacity # write_idx
    /\ datas' = [datas EXCEPT ![write_idx] = ncopied + 1]
    /\ write_idx' = NextIdx(write_idx)
    /\ read_idx' = read_idx

\* read_idx moves by one slot in the step that releases the record of that
\* slot: after its execute returned 0, or in the loop that follows a failed
\* execute
ReadIndexAfterReleaseOrDrain ==
  read_idx' # read_idx =>
    /\ read_idx' = NextIdx(read_idx)
    /\ released' = Append(released, datas[read_idx])
    /\ executed' = executed
    /\ datas' = datas
    /\ \/ consumer_pc = "Call" /\ executed[Len(executed)] = datas[read_idx]
       \/ consumer_pc = "ReadQueueFail" /\ executed[Len(executed)] <= datas[read_idx]

\* read_idx moves past a slot in the step that releases its record, and
\* execute has been invoked on that record and has returned
ReadIndexAfterExecute ==
  read_idx' # read_idx =>
    /\ read_idx' = NextIdx(read_idx)
    /\ released' = Append(released, datas[read_idx])
    /\ \E i \in 1 .. Len(executed) : executed[i] = datas[read_idx]

\* C39 (ring slot safety, as stated): WriteQueue writes slot write_idx only
\* when (write_idx + 1) mod N differs from read_idx, and read_idx advances only
\* after execute and release of its slot have returned.
C39_AdvanceAfterExecute == [][WriteGuarded /\ ReadIndexAfterExecute]_vars

\* C39 (ring slot safety, as the code has it): the producer writes slot
\* write_idx only when (write_idx + 1) mod N differs from read_idx and never
\* into a slot that holds a record still to be released; read_idx advances
\* only in the step that releases the record of its slot, after execute on it
\* has returned 0 or, once an execute has failed, without execute; the ring
\* never holds more than N - 1 unreleased records, in the slots from read_idx
\* up to write_idx.
C39_RingSlotSafety ==
  /\ [][WriteGuarded /\ ReadIndexAfterReleaseOrDrain]_vars
  /\ []RingHoldsUnreleased

\* the producer has found the ring full, with N - 1 records in it and
\* write_idx wrapped around to the slot before read_idx, while execute runs on
\* the record of slot read_idx
C39_Witness ==
  /\ host_pc = "EnqueueFull"
  /\ consumer_pc = "Call"
  /\ ncopied - Len(released) = kQueueCapacity - 1
  /\ write_idx < read_idx
  /\ NextIdx(write_idx) = read_idx

\* the host thread is blocked in eventfd_read of Enqueue or of
\* MakeSureQueueEmpty
HostBlocked ==
  \/ host_pc = "EnqueueWait" /\ efd_write = 0
  \/ host_pc = "MakeSureWait" /\ efd_empty = 0

\* the host thread stands in one of the two eventfd_read calls
HostInWait == host_pc \in {"EnqueueWait", "MakeSureWait"}

\* C38 (progress after a kernel failure, as stated): a host thread that is
\* blocked in Enqueue on a full ring or in MakeSureQueueEmpty when an execute
\* callback has failed eventually returns from its call.
C38_BlockedHostReleased == (ExecuteFailed /\ HostBlocked) ~> (host_pc = "idle")

\* C38 (progress after a kernel failure, as the code has it): after a failed
\* execute callback the consumer reaches the throw, whose uncaught exception
\* ends the process; on its way it writes no token to efd_write or efd_empty,
\* so a host thread that is blocked in Enqueue or in MakeSureQueueEmpty at
\* that moment stays in its eventfd_read and its call never returns, and no
\* host call returns after the process has ended.
C38_FailureEndsProcess ==
  /\ ExecuteFailed ~> (consumer_pc = "terminate")
  /\ [][(ExecuteFailed /\ HostBlocked) =>
          (HostInWait' /\ host_pc' = host_pc /\ qlast' = qlast
           /\ efd_write' \in {efd_write, Closed} /\ efd_empty' \in {efd_empty, Closed})]_vars
  /\ [][(consumer_pc = "terminate" /\ HostInWait) =>
          (host_pc' = host_pc /\ qlast' = qlast)]_vars

\* the producer was blocked on a full ring when execute failed: the consumer
\* has released the records, closed the descriptors and thrown, and the
\* producer is still in its eventfd_read
C38_Witness ==
  /\ consumer_pc = "terminate"
  /\ host_pc = "EnqueueWait"
  /\ efd_write = Closed
  /\ IsEmptyQueue
  /\ Len(released) = ncopied
  /\ Len(executed) < ncopied

\* the number of slots of the release ring that read_idx has moved past
ParamsPassed ==
  IF releaser_pc = "ReleaseParam" THEN Len(params_released) - 1 ELSE Len(params_released)

\* the slots of the release ring from read_idx up to write_idx hold the blocks
\* that read_idx has not passed, in push order, at most N - 1 of them
ReleaseRingHoldsPending ==
  /\ ParamsPassed >= 0
  /\ npushed - ParamsPassed \in 0 .. kReleaseQueueCapacity - 1
  /\ rq_read_idx = ParamsPassed % kReleaseQueueCapacity
  /\ rq_write_idx = npushed % kReleaseQueueCapacity
  /\ \A j \in 1 .. npushed - ParamsPassed :
       rq_datas[(rq_read_idx + j - 1) % kReleaseQueueCapacity] = ParamsPassed + j

\* a step that writes the release ring copies the next block into slot
\* write_idx while the ring is not full
ReleaseWriteGuarded ==
  (rq_datas' # rq_datas \/ rq_write_idx' # rq_write_idx) =>
    /\ pusher_pc = "WriteToReleaseQueue"
    /\ (rq_write_idx + 1) % kReleaseQueueCapacity # rq_read_idx
    /\ rq_datas' = [rq_datas EXCEPT ![rq_write_idx] = npushed + 1]
    /\ rq_write_idx' = NextReleaseIdx(rq_write_idx)

\* a step that changes the status of the release queue: the destructor sets
\* NEED_EXIT, or the releaser, whose ReadFromReleaseQueue has returned false,
\* turns NEED_EXIT into CAN_EXIT
ReleaseStatusAdvances ==
  /\ rq_status' # rq_status =>
       \/ rq_status = "INIT" /\ rq_status' = "NEED_EXIT" /\ host_pc' = "ReleaserJoin"
       \/ rq_status = "NEED_EXIT" /\ rq_status' = "CAN_EXIT" /\ releaser_pc = "PopEmpty"
  /\ (releaser_pc' = "PopEmpty" /\ releaser_pc # "PopEmpty") =>
       (releaser_pc = "PopLoop" /\ ReleaseIsEmptyQueue)

\* C37 (release queue delivery, as stated): when the releaser has left its
\* loop, no pushed block is left unreleased.
C37_NoneLeftAtExit == releaser_pc = "exited" => Len(params_released) = npushed

\* C37 (release queue delivery, as the code has it): ReleaseParam is invoked
\* on the pushed blocks in push order, at most once each and none skipped; the
\* producer writes a slot only while the ring is not full, so no slot with a
\* block still to be released is overwritten, and a PushToReleaseQueue call
\* returns; the status goes from INIT to NEED_EXIT to CAN_EXIT, the last step
\* taken by the releaser after it found the ring empty; every pushed block is
\* released as long as the destructor has not set NEED_EXIT, and after the
\* destructor has set it the releaser leaves its loop, possibly with blocks
\* in the ring that were pushed after its last look at the ring.
C37_ReleaseDelivery ==
  /\ [](/\ params_released = FirstRecords(Len(params_released))
        /\ Len(params_released) <= npushed
        /\ ReleaseRingHoldsPending)
  /\ [][ReleaseWriteGuarded /\ ReleaseStatusAdvances]_vars
  /\ (pusher_pc = "WriteToReleaseQueue") ~> (pusher_pc = "idle")
  /\ \A k \in 1 .. MaxParams :
       (npushed >= k) ~> (Len(params_released) >= k \/ rq_status # "INIT")
  /\ (host_pc = "ReleaserJoin") ~> (host_pc = "destroyed" /\ rq_status = "CAN_EXIT")

\* the releaser has released blocks in push order, set CAN_EXIT and left its
\* loop while a block pushed before NEED_EXIT is still in the ring
C37_Witness ==
  /\ releaser_pc = "exited"
  /\ rq_status = "CAN_EXIT"
  /\ Len(params_released) > 0
  /\ Len(params_released) < npushed
  /\ ~ReleaseIsEmptyQueue

\* the producer goes round its loop on a full release ring whose write_idx has
\* wrapped around, while ReleaseParam runs on the block of slot read_idx
C37_WitnessFull ==
  /\ pusher_pc = "WriteToReleaseQueue"
  /\ ReleaseIsFullQueue
  /\ releaser_pc = "ReleaseParam"
  /\ rq_write_idx < rq_read_idx

====
